---- MODULE Spec2Model ----
(***************************************************************************)
(* Model of the secp256k1 core of oxicoin: field arithmetic                *)
(* (src/secp256k1/field.rs), the point group (src/secp256k1/curve.rs),     *)
(* keys and ECDSA (src/secp256k1/crypto.rs, signature.rs).                 *)
(*                                                                         *)
(* The operations are pure functions on immutable values; they are written *)
(* as operators that compute what the code computes, and the               *)
(* specifications below apply them to inputs drawn from bounded sets.      *)
(*                                                                         *)
(* Scale.  TLC has no 256-bit integers, so the three literal parameters of *)
(* the curve are replaced by those of the curve y^2 = x^3 + 7 over F_43,   *)
(* which has the shape of secp256k1: a = 0, b = 7, PRIME = 3 (mod 4), a    *)
(* group of prime order ORDER < PRIME, no point with x = 0 or y = 0, and   *)
(* PRIME below the largest value of a coordinate's byte field (two bytes   *)
(* here, 32 bytes in the code).  Every operator is the code's algorithm    *)
(* over these parameters.                                                  *)
(***************************************************************************)
EXTENDS Integers, Sequences, FiniteSets, TLC

VARIABLES
    op,     \* name of the operation the state records the outcome of
    fa,     \* field: first operand  (FieldElement.0)
    fb,     \* field: second operand (FieldElement.0)
    fe,     \* field: exponent given to pow / raw number given to new
    fr,     \* field: the FieldElement the operation returned
    P,      \* curve: left operand (a Point)
    Q,      \* curve: right operand (a Point)
    R,      \* curve: the Point the operation returned
    k,      \* curve: the scalar given to Mul
    acc,    \* curve: P added to the identity k times
    cerr,   \* curve: the error the operation returned, "" when it returned Ok
    divs,   \* curve: the divisors the operation handed to the field division
    bytes,  \* SEC: the byte string given to Point::deserialize
    compressed, \* SEC: the flag given to Point::serialize
    ser,    \* SEC: the outcome of Point::serialize [err, val]
    key,    \* ECDSA: the PrivateKey [secret, pub_key]
    digest, \* ECDSA: the digest given to create_signature and valid_signature
    hmac,   \* ECDSA: the state [k, v] of the nonce generator
    sig,    \* ECDSA: the outcome of create_signature [err, r, s]
    valid,  \* ECDSA: the outcome of valid_signature: "true", "false", "panic", ""
    dsig,   \* DER: the outcome of Signature::deserialize [err, r, s]
    calls,  \* ECDSA: the number of calls of create_signature started so far
    first,  \* ECDSA: the nonce and the outcome of the first call [k, sig]
    refused, \* ECDSA: the candidates the loop of deterministic_k refused in this call
    b58,    \* base58: the string encode returned, a sequence of characters
    ga,     \* generic field: the outcome of FieldElement::new(number, prime) [err, val]
    gb,     \* generic field: the outcome of a second FieldElement::new
    gr,     \* generic field: the outcome of the operation on ga.val and gb.val
    gin,    \* generic field: the arguments of the two FieldElement::new [n, p, m, q]
    vn,     \* VarInt: the integer given to the conversion [ty, val]
    vint,   \* VarInt: the outcome of the conversion [err, val], val a VarInt [tag, val]
    venc,   \* VarInt: the bytes encode returned
    vdec,   \* VarInt: the outcome of decode on those bytes [err, val]
    vu64,   \* VarInt: the u64 as_u64 returned
    gp,     \* generic curve: the outcome of Point::new(x, y, curve) or at_infinity() [err, val]
    gq,     \* generic curve: the outcome of a second Point::new or at_infinity()
    gpq,    \* generic curve: the outcome of gp.val.fragile_add(&gq.val) [err, val]
    gqp,    \* generic curve: the outcome of gq.val.fragile_add(&gp.val) [err, val]
    cache,  \* TxFetcher: the DashMap of TX_FETCHER, tx_id -> [some, tx]
    fpc,    \* TxFetcher: for each task, the line of fetch it is at
    fargs,  \* TxFetcher: for each task, the arguments of its call [tx_id, testnet, fresh]
    fresp,  \* TxFetcher: for each task, the response its request got [status, bytes]
    fres,   \* TxFetcher: for each task, what its call returned [err, tx]
    fcalls, \* TxFetcher: for each task, the number of calls it has made
    feetx,  \* fee: the transaction fee is called on
    feeprev, \* fee: for each input, what fetch_tx returns for it [err, tx]
    feeres  \* fee: what fee returned [err, val]

fieldVars == <<fa, fb, fe, fr>>
curveVars == <<P, Q, R, k, acc, cerr, divs>>
signVars == <<key, digest, hmac, sig, valid, dsig, calls, first, refused>>
secVars == <<bytes, compressed, ser>>
codecVars == <<b58>>
gfVars == <<ga, gb, gr, gin>>
varintVars == <<vn, vint, venc, vdec, vu64>>
gcurveVars == <<gp, gq, gpq, gqp>>
fetchVars == <<cache, fpc, fargs, fresp, fres, fcalls>>
feeVars == <<feetx, feeprev, feeres>>
coreVars == <<varintVars, gcurveVars, fetchVars, feeVars>>
nonFetchVars ==
    <<op, fieldVars, curveVars, secVars, signVars, codecVars, gfVars, varintVars,
      gcurveVars, feeVars>>
restVars == <<codecVars, gfVars, coreVars>>
vars == <<op, fieldVars, curveVars, secVars, signVars, restVars>>

----------------------------------------------------------------------------
(* Parameters *)

\* secp256k1/field.rs PRIME (scaled, see above)
PRIME == 43
\* secp256k1/mod.rs ORDER_IN_HEX (scaled): the order of the group
ORDER == 31
\* secp256k1/mod.rs GX_IN_HEX, GY_IN_HEX (scaled): the base point
GX == 2
GY == 12

\* Bounds of the model
MaxRaw == 90        \* raw integers handed to FieldElement::new: 0..MaxRaw
MaxExp == 3         \* exponents handed to pow: -MaxExp..MaxExp, +-(PRIME-2), +-(PRIME-1), -PRIME
MaxScalar == 64     \* scalars handed to Mul in SpecMul: 0..MaxScalar
MaxChainScalar == 3 \* scalars handed to Mul in SpecCurve: 0..MaxChainScalar
MaxCoordByte == 90  \* bytes of the coordinates given to deserialize: 0..MaxCoordByte
MaxSecKey == 70     \* secrets of the keys given to serialize: 0..MaxSecKey
MaxDerInt == 130    \* r and s of a Signature: 0..MaxDerInt, and the values around
                    \* the byte boundaries 2^8, 2^15, 2^16
MaxDerLen == 8      \* declared lengths of the byte strings given to
                    \* Signature::deserialize: 2..MaxDerLen, 254, 255
MaxVerifySecret == 2 \* secrets of the keys signatures are checked against
MaxSigInt == 32     \* r and s of the signatures given to is_valid: 0..MaxSigInt
MaxBase58Byte == 3  \* bytes of the strings given to encode: 0..MaxBase58Byte, and
                    \* 57, 58, 59, 128, 255
MaxGfNumber == 14
\* the largest of the small digits of the integers given to the VarInt conversions
MaxVarIntDigit == 1
\* the largest x and the largest |y| given to the Point::new of curve.rs
MaxGcX == 3
MaxGcY == 7
\* the tasks that share TX_FETCHER, and the calls of fetch they make in all
NumTasks == 2
MaxFetchCalls == 3
\* the distance of an amount from 0 or from 2^64 - 1
MaxFeeAmount == 1   \* numbers given to the generic FieldElement::new: 0..MaxGfNumber
MaxSecret == 256    \* secrets given to PrivateKey::new: 0..MaxSecret, and the
                    \* largest secret of CoordLen bytes and its successor
MaxDigest == 3      \* low bytes of the digests: 0..MaxDigest, 255-MaxDigest..255, ORDER

\* the width in bytes of a coordinate, a secret, a digest and an HMAC output:
\* 32 in the code, 2 here
CoordLen == 2

----------------------------------------------------------------------------
(* num-bigint *)

\* BigUint::modpow: base^exp mod m by square and multiply
RECURSIVE modpow(_, _, _)
modpow(base, exp, m) ==
    IF exp = 0 THEN 1 % m
    ELSE LET half == modpow(base, exp \div 2, m)
             sq   == (half * half) % m
         IN  IF exp % 2 = 1 THEN (sq * (base % m)) % m ELSE sq

\* Integer::mod_floor for a positive modulus: the remainder in [0, m)
mod_floor(n, m) == n % m

----------------------------------------------------------------------------
(* secp256k1/field.rs: FieldElement(BigUint) is modelled by its number *)

FieldElement_new(number) == number % PRIME

FieldElement_zero == 0

FieldElement_one == 1

FieldElement_is_zero(a) == a = 0

add_inv(a) == PRIME - a

pow(a, exp) ==
    LET exponent == IF exp >= 0 THEN exp ELSE mod_floor(exp, PRIME - 1)
    IN  modpow(a, exponent, PRIME)

mul_inv(a) == pow(a, PRIME - 2)

add(a, b) == FieldElement_new((a + b) % PRIME)

sub_swapped(a, b) == add(b, add_inv(a))
sub(a, b) == add(a, add_inv(b))

mul(a, b) == FieldElement_new((a * b) % PRIME)

div(a, b) == mul(a, mul_inv(b))

mul_usize(a, rhs) == mul(a, FieldElement_new(rhs))

\* FieldElement::sqrt is called by Point::deserialize but its body is not part
\* of the sources; spec section 4.1: a^((PRIME+1)/4) mod PRIME.
sqrt(a) == pow(a, (PRIME + 1) \div 4)

----------------------------------------------------------------------------
(* secp256k1/curve.rs *)

\* enum Point { AtInfinity, Normal(FieldElement, FieldElement) }
AtInfinity == [inf |-> TRUE, x |-> 0, y |-> 0]
Normal(x, y) == [inf |-> FALSE, x |-> x, y |-> y]

\* Result<Point>
Ok(pt) == [err |-> "", val |-> pt]
Err(e) == [err |-> e, val |-> AtInfinity]

\* lazy_static B and ECURVE = EllipticCurve::new(0, 7)
B == FieldElement_new(7)
ECURVE == [a |-> FieldElement_new(0), b |-> FieldElement_new(7)]

contains(x, y) == pow(y, 2) = add(add(pow(x, 3), mul(ECURVE.a, x)), ECURVE.b)

Point_new_unchecked(x, y) == Ok(Normal(x, y))
Point_new(x, y) ==
    IF contains(x, y) THEN Ok(Normal(x, y)) ELSE Err("PointNotOnTheCurve")

at_infinity == AtInfinity

\* impl Add<&Point> for &Point.  divs is the set of divisors the addition
\* hands to div (and so to mul_inv): empty when no slope is computed.
add_points_no_inverse_case(lhs, rhs) ==
    IF lhs.inf THEN [pt |-> rhs, divs |-> {}]
    ELSE IF rhs.inf THEN [pt |-> lhs, divs |-> {}]
    ELSE IF lhs.x = rhs.x
    THEN IF FieldElement_is_zero(lhs.y)
         THEN [pt |-> at_infinity, divs |-> {}]
         ELSE LET slope == div(add(mul_usize(pow(lhs.x, 2), 3), ECURVE.a),
                               mul_usize(lhs.y, 2))
                  x3 == sub(pow(slope, 2), mul_usize(lhs.x, 2))
                  y3 == sub(mul(slope, sub(lhs.x, x3)), lhs.y)
              IN  [pt |-> Normal(x3, y3), divs |-> {mul_usize(lhs.y, 2)}]
    ELSE LET slope == div(sub(rhs.y, lhs.y), sub(rhs.x, lhs.x))
             x3 == sub(sub(pow(slope, 2), lhs.x), rhs.x)
             y3 == sub(mul(slope, sub(lhs.x, x3)), lhs.y)
         IN  [pt |-> Normal(x3, y3), divs |-> {sub(rhs.x, lhs.x)}]
add_points_y3_not_reflected(lhs, rhs) ==
    IF lhs.inf THEN [pt |-> rhs, divs |-> {}]
    ELSE IF rhs.inf THEN [pt |-> lhs, divs |-> {}]
    ELSE IF lhs.x = rhs.x /\ lhs.y # rhs.y
    THEN [pt |-> at_infinity, divs |-> {}]
    ELSE IF lhs.x = rhs.x /\ lhs.y = rhs.y
    THEN IF FieldElement_is_zero(lhs.y)
         THEN [pt |-> at_infinity, divs |-> {}]
         ELSE LET slope == div(add(mul_usize(pow(lhs.x, 2), 3), ECURVE.a),
                               mul_usize(lhs.y, 2))
                  x3 == sub(pow(slope, 2), mul_usize(lhs.x, 2))
                  y3 == sub(mul(slope, sub(lhs.x, x3)), lhs.y)
              IN  [pt |-> Normal(x3, y3), divs |-> {mul_usize(lhs.y, 2)}]
    ELSE LET slope == div(sub(rhs.y, lhs.y), sub(rhs.x, lhs.x))
             x3 == sub(sub(pow(slope, 2), lhs.x), rhs.x)
             y3 == add(mul(slope, sub(lhs.x, x3)), lhs.y)
         IN  [pt |-> Normal(x3, y3), divs |-> {sub(rhs.x, lhs.x)}]
add_points(lhs, rhs) ==
    IF lhs.inf THEN [pt |-> rhs, divs |-> {}]
    ELSE IF rhs.inf THEN [pt |-> lhs, divs |-> {}]
    ELSE IF lhs.x = rhs.x /\ lhs.y # rhs.y
    THEN [pt |-> at_infinity, divs |-> {}]
    ELSE IF lhs.x = rhs.x /\ lhs.y = rhs.y
    THEN IF FieldElement_is_zero(lhs.y)
         THEN [pt |-> at_infinity, divs |-> {}]
         ELSE LET slope == div(add(mul_usize(pow(lhs.x, 2), 3), ECURVE.a),
                               mul_usize(lhs.y, 2))
                  x3 == sub(pow(slope, 2), mul_usize(lhs.x, 2))
                  y3 == sub(mul(slope, sub(lhs.x, x3)), lhs.y)
              IN  [pt |-> Normal(x3, y3), divs |-> {mul_usize(lhs.y, 2)}]
    ELSE LET slope == div(sub(rhs.y, lhs.y), sub(rhs.x, lhs.x))
             x3 == sub(sub(pow(slope, 2), lhs.x), rhs.x)
             y3 == sub(mul(slope, sub(lhs.x, x3)), lhs.y)
         IN  [pt |-> Normal(x3, y3), divs |-> {sub(rhs.x, lhs.x)}]

Point_add(lhs, rhs) == add_points(lhs, rhs).pt

\* the divisors of the slope computation of lhs + rhs
Point_add_divs(lhs, rhs) == add_points(lhs, rhs).divs

\* the loop of impl Mul<U> for &Point: coef, result, current, and the divisors
\* of the additions made so far
RECURSIVE mul_loop(_, _, _, _)
mul_loop(coef, result, current, ds) ==
    IF coef = 0 THEN [pt |-> result, divs |-> ds]
    ELSE LET odd == coef % 2 = 1
             res == IF odd THEN Point_add(result, current) ELSE result
             ds1 == IF odd THEN ds \cup Point_add_divs(result, current) ELSE ds
         IN  mul_loop(coef \div 2, res, Point_add(current, current),
                      ds1 \cup Point_add_divs(current, current))

mul_points_shift_first(self, coef) ==
    mul_loop((coef % PRIME) \div 2, AtInfinity, Point_add(self, self), {})
mul_points(self, coef) == mul_loop(coef % PRIME, AtInfinity, self, {})

Point_mul(self, coef) == mul_points(self, coef).pt

Point_mul_divs(self, coef) == mul_points(self, coef).divs

\* secp256k1/mod.rs GENERATOR
GENERATOR == Point_new(FieldElement_new(GX), FieldElement_new(GY)).val

----------------------------------------------------------------------------
(* Byte strings: sequences of numbers in 0..255 *)

Byte == 0 .. 255

\* BigUint::from_bytes_be; the empty string is 0
RECURSIVE from_bytes_be(_)
from_bytes_be(bs) ==
    IF bs = <<>> THEN 0
    ELSE from_bytes_be(SubSeq(bs, 1, Len(bs) - 1)) * 256 + bs[Len(bs)]

\* BigUint::to_bytes_be: the shortest big-endian string; <<0>> for zero
RECURSIVE to_bytes_be(_)
to_bytes_be(n) ==
    IF n < 256 THEN <<n>> ELSE Append(to_bytes_be(n \div 256), n % 256)

\* utils.rs prepend_padding: [err, val]
prepend_padding_appended(vec, size, with) ==
    IF Len(vec) > size THEN [err |-> "OverflowPadding", val |-> <<>>]
    ELSE IF Len(vec) = size THEN [err |-> "", val |-> vec]
    ELSE [err |-> "", val |-> vec \o [i \in 1 .. size - Len(vec) |-> with]]
prepend_padding(vec, size, with) ==
    IF Len(vec) > size THEN [err |-> "OverflowPadding", val |-> <<>>]
    ELSE IF Len(vec) = size THEN [err |-> "", val |-> vec]
    ELSE [err |-> "", val |-> [i \in 1 .. size - Len(vec) |-> with] \o vec]

is_even(n) == n % 2 = 0

----------------------------------------------------------------------------
(* secp256k1/curve.rs: SEC format.  The lengths 33 and 65 of the code are  *)
(* 1 + CoordLen and 1 + 2*CoordLen.                                        *)

SecCompressedLen == 1 + CoordLen
SecUncompressedLen == 1 + 2 * CoordLen

\* Point::serialize: [err, val]
Point_serialize_evenness_swapped(self, compr) ==
    IF self.inf THEN [err |-> "SerializePointAtInfinity", val |-> <<>>]
    ELSE IF compr
    THEN LET x_bigendian == prepend_padding(to_bytes_be(self.x), CoordLen, 0)
             y_evenness == IF is_even(self.y) THEN 3 ELSE 2
         IN  IF x_bigendian.err # "" THEN [err |-> x_bigendian.err, val |-> <<>>]
             ELSE [err |-> "", val |-> <<y_evenness>> \o x_bigendian.val]
    ELSE LET x_bigendian == prepend_padding(to_bytes_be(self.x), CoordLen, 0)
             y_bigendian == prepend_padding(to_bytes_be(self.y), CoordLen, 0)
         IN  IF x_bigendian.err # "" THEN [err |-> x_bigendian.err, val |-> <<>>]
             ELSE IF y_bigendian.err # "" THEN [err |-> y_bigendian.err, val |-> <<>>]
             ELSE [err |-> "", val |-> <<4>> \o x_bigendian.val \o y_bigendian.val]
Point_serialize(self, compr) ==
    IF self.inf THEN [err |-> "SerializePointAtInfinity", val |-> <<>>]
    ELSE IF compr
    THEN LET x_bigendian == prepend_padding(to_bytes_be(self.x), CoordLen, 0)
             y_evenness == IF is_even(self.y) THEN 2 ELSE 3
         IN  IF x_bigendian.err # "" THEN [err |-> x_bigendian.err, val |-> <<>>]
             ELSE [err |-> "", val |-> <<y_evenness>> \o x_bigendian.val]
    ELSE LET x_bigendian == prepend_padding(to_bytes_be(self.x), CoordLen, 0)
             y_bigendian == prepend_padding(to_bytes_be(self.y), CoordLen, 0)
         IN  IF x_bigendian.err # "" THEN [err |-> x_bigendian.err, val |-> <<>>]
             ELSE IF y_bigendian.err # "" THEN [err |-> y_bigendian.err, val |-> <<>>]
             ELSE [err |-> "", val |-> <<4>> \o x_bigendian.val \o y_bigendian.val]

Point_deserialize(bs) ==
    LET length == Len(bs)
    IN  IF length # SecCompressedLen /\ length # SecUncompressedLen
        THEN Err("InvalidSecBytesLength")
        ELSE IF bs[1] = 4
        THEN \* bytes[1..33] and bytes[33..65]: the second slice is out of
             \* range for a string of the compressed length
             IF length < SecUncompressedLen THEN Err("panic")
             ELSE LET x == FieldElement_new(from_bytes_be(SubSeq(bs, 2, 1 + CoordLen)))
                      y == FieldElement_new(
                               from_bytes_be(SubSeq(bs, 2 + CoordLen, 1 + 2 * CoordLen)))
                  IN  Point_new(x, y)
        ELSE LET y_is_even == bs[1] = 2
                 x == FieldElement_new(from_bytes_be(SubSeq(bs, 2, length)))
                 alpha == add(pow(x, 3), B)
                 beta == sqrt(alpha)
                 y == IF is_even(beta) = y_is_even THEN beta
                      ELSE FieldElement_new(PRIME - beta)
             IN  Ok(Normal(x, y))

----------------------------------------------------------------------------
(* secp256k1/crypto.rs and signature.rs *)

\* Hmac<Sha256> is a library; it is modelled as a fixed function of the key
\* and the message, both byte strings of any length, to a string of CoordLen
\* bytes.  Nothing below depends on which function it is.
RECURSIVE absorb(_, _)
absorb(h, data) ==
    IF data = <<>> THEN h
    ELSE absorb((h * 37 + data[1] + 11) % 251, SubSeq(data, 2, Len(data)))

hmac_sha256(hkey, data) ==
    LET h == absorb(absorb(7, hkey), data)
    IN  [i \in 1 .. CoordLen |->
            IF i = CoordLen THEN (h * 5 + Len(data)) % 256
            ELSE (h \div 8) % 2]

\* PrivateKey::new: no reduction of the secret; pub_key = G * secret
PrivateKey_new(secret) ==
    [secret |-> secret, pub_key |-> Point_mul(GENERATOR, secret)]

\* deterministic_k up to its loop: the padding of the secret and the two
\* rounds that set up (k, v)
deterministic_k_init(self, dg) ==
    LET k0 == [i \in 1 .. CoordLen |-> 0]
        v0 == [i \in 1 .. CoordLen |-> 1]
        padded == prepend_padding(to_bytes_be(self.secret), CoordLen, 0)
        k1 == hmac_sha256(k0, v0 \o <<0>> \o padded.val \o dg)
        v1 == hmac_sha256(k1, v0)
        k2 == hmac_sha256(k1, v1 \o <<1>> \o padded.val \o dg)
        v2 == hmac_sha256(k2, v1)
    IN  IF padded.err # "" THEN [err |-> padded.err, k |-> k0, v |-> v0]
        ELSE [err |-> "", k |-> k2, v |-> v2]

\* one turn of the loop of deterministic_k: the candidate, and the state
\* (k, v) the next turn starts from when the candidate is refused
deterministic_k_turn_accepts_zero(st) ==
    LET v1 == hmac_sha256(st.k, st.v)
        candidate == from_bytes_be(v1)
        k2 == hmac_sha256(st.k, v1 \o <<0>>)
        v2 == hmac_sha256(k2, v1)
    IN  [candidate |-> candidate,
         accepted |-> candidate < ORDER,
         k |-> k2, v |-> v2]
deterministic_k_turn(st) ==
    LET v1 == hmac_sha256(st.k, st.v)
        candidate == from_bytes_be(v1)
        k2 == hmac_sha256(st.k, v1 \o <<0>>)
        v2 == hmac_sha256(k2, v1)
    IN  [candidate |-> candidate,
         accepted |-> candidate >= 1 /\ candidate < ORDER,
         k |-> k2, v |-> v2]

\* create_signature once deterministic_k has returned nonce; x().unwrap()
\* panics when G * nonce is the point at infinity
create_signature_with_high_s(self, dg, nonce) ==
    LET r == Point_mul(GENERATOR, nonce).x
        k_inv == modpow(nonce, ORDER - 2, ORDER)
        z == from_bytes_be(dg)
        s0 == ((z + r * self.secret) * k_inv) % ORDER
    IN  IF Point_mul(GENERATOR, nonce).inf THEN [err |-> "panic", r |-> 0, s |-> 0]
        ELSE [err |-> "", r |-> r, s |-> s0]
create_signature_with(self, dg, nonce) ==
    LET r == Point_mul(GENERATOR, nonce).x
        k_inv == modpow(nonce, ORDER - 2, ORDER)
        z == from_bytes_be(dg)
        s0 == ((z + r * self.secret) * k_inv) % ORDER
        s == IF s0 > ORDER \div 2 THEN ORDER - s0 ELSE s0
    IN  IF Point_mul(GENERATOR, nonce).inf THEN [err |-> "panic", r |-> 0, s |-> 0]
        ELSE [err |-> "", r |-> r, s |-> s]

\* Signature::is_valid, the body of PublicKey::valid_signature: "true" or
\* "false", "panic" when total is the point at infinity (x().unwrap()), and
\* the error for a digest of another length
Signature_is_valid(sg, dg, pub_key) ==
    IF Len(dg) # CoordLen THEN "InvalidDigestLength"
    ELSE LET z == from_bytes_be(dg)
             s_inv == modpow(sg.s, ORDER - 2, ORDER)
             u == (z * s_inv) % ORDER
             v == (sg.r * s_inv) % ORDER
             total == Point_add(Point_mul(GENERATOR, u), Point_mul(pub_key, v))
         IN  IF total.inf THEN "panic"
             ELSE IF total.x = sg.r THEN "true" ELSE "false"

\* utils.rs strip_start: [err, val]; arr[new_start] is out of range, a panic,
\* when arr is empty
RECURSIVE strip_start_from(_, _, _)
strip_start_from(arr, elem, new_start) ==
    IF arr[new_start + 1] = elem
    THEN IF new_start + 1 = Len(arr) THEN new_start + 1
         ELSE strip_start_from(arr, elem, new_start + 1)
    ELSE new_start

strip_start(arr, elem) ==
    IF arr = <<>> THEN [err |-> "panic", val |-> <<>>]
    ELSE [err |-> "",
          val |-> SubSeq(arr, strip_start_from(arr, elem, 0) + 1, Len(arr))]

\* `len as u8`
as_u8(n) == n % 256

\* one integer of Signature::serialize: to_bytes_be, strip_start, and the 0x00
\* put in front when the high bit of the first byte is set; [err, val].
\* bigendian[0] is out of range, a panic, when nothing is left of the bytes
der_integer_no_sign_byte(n) ==
    LET bigendian == strip_start(to_bytes_be(n), 0)
    IN  IF bigendian.err # "" THEN bigendian
        ELSE IF bigendian.val = <<>> THEN [err |-> "panic", val |-> <<>>]
        ELSE [err |-> "", val |-> bigendian.val]
der_integer(n) ==
    LET bigendian == strip_start(to_bytes_be(n), 0)
    IN  IF bigendian.err # "" THEN bigendian
        ELSE IF bigendian.val = <<>> THEN [err |-> "panic", val |-> <<>>]
        ELSE IF bigendian.val[1] >= 128
        THEN [err |-> "", val |-> <<0>> \o bigendian.val]
        ELSE [err |-> "", val |-> bigendian.val]

\* Signature::serialize: [err, val]
Signature_serialize(self) ==
    LET r_bigendian == der_integer(self.r)
        s_bigendian == der_integer(self.s)
        result == <<2, as_u8(Len(r_bigendian.val))>> \o r_bigendian.val
                  \o <<2, as_u8(Len(s_bigendian.val))>> \o s_bigendian.val
    IN  IF r_bigendian.err # "" THEN r_bigendian
        ELSE IF s_bigendian.err # "" THEN s_bigendian
        ELSE [err |-> "", val |-> <<48, as_u8(Len(result))>> \o result]

\* Signature::deserialize: [err, r, s].  read_exact fails with an io error
\* when fewer bytes are left than the buffer holds.  buf[1] + 2 is an
\* addition of u8: for buf[1] >= 254 it panics in a build with overflow
\* checks and wraps in a build without.
Signature_deserialize(bs, overflow_checks) ==
    LET size == Len(bs)
        fail(e) == [err |-> e, r |-> 0, s |-> 0]
    IN  IF size < 4 THEN fail("IoError")
        ELSE IF bs[1] # 48 THEN fail("InvalidSignature(bad compound)")
        ELSE IF bs[2] + 2 > 255 /\ overflow_checks THEN fail("panic")
        ELSE IF (bs[2] + 2) % 256 # size
        THEN fail("InvalidSignature(bad signature size)")
        ELSE IF bs[3] # 2 THEN fail("InvalidSignature(bad marker)")
        ELSE LET r_size == bs[4]
                 r == from_bytes_be(SubSeq(bs, 5, 4 + r_size))
             IN  IF size - 4 < r_size THEN fail("IoError")
                 ELSE IF size - 4 - r_size < 2 THEN fail("IoError")
                 ELSE IF bs[5 + r_size] # 2 THEN fail("InvalidSignature(bad marker)")
                 ELSE LET s_size == bs[5 + r_size]
                          s == from_bytes_be(
                                   SubSeq(bs, 7 + r_size, 6 + r_size + s_size))
                      IN  IF size - 6 - r_size < s_size THEN fail("IoError")
                          ELSE IF size # 6 + r_size + s_size
                          THEN fail("InvalidSignature(signature too long)")
                          ELSE [err |-> "", r |-> r, s |-> s]

----------------------------------------------------------------------------
(* field.rs: the FieldElement with an explicit prime, [prime, number]; an  *)
(* outcome is [err, val]                                                   *)

field_Ok(number, prime) == [err |-> "", val |-> [prime |-> prime, number |-> number]]
field_Err(e) == [err |-> e, val |-> [prime |-> 0, number |-> 0]]

field_FieldElement_new(number, prime) ==
    IF number >= prime THEN field_Err("InvalidFieldNumber")
    ELSE field_Ok(number, prime)

field_add_inv(self) == [prime |-> self.prime, number |-> self.prime - self.number]

field_pow(self, exp) ==
    LET exponent == IF exp >= 0 THEN exp ELSE mod_floor(exp, self.prime - 1)
    IN  [prime |-> self.prime, number |-> modpow(self.number, exponent, self.prime)]

\* &self.prime - 2 is a subtraction of BigUint: it panics when prime < 2
field_mul_inv(self) ==
    IF self.prime < 2 THEN field_Err("panic")
    ELSE [err |-> "", val |-> field_pow(self, self.prime - 2)]

fragile_add(self, rhs) ==
    IF self.prime # rhs.prime THEN field_Err("InvalidFieldAddition")
    ELSE field_Ok((self.number + rhs.number) % self.prime, self.prime)

fragile_sub(self, rhs) ==
    IF self.prime # rhs.prime THEN field_Err("InvalidFieldSubstraction")
    ELSE fragile_add(self, field_add_inv(rhs))

fragile_mul_unchecked(self, rhs) ==
    field_Ok((self.number * rhs.number) % self.prime, self.prime)
fragile_mul(self, rhs) ==
    IF self.prime # rhs.prime THEN field_Err("InvalidFieldMultiplication")
    ELSE field_Ok((self.number * rhs.number) % self.prime, self.prime)

fragile_div(self, rhs) ==
    IF self.prime # rhs.prime THEN field_Err("InvalidFieldDivition")
    ELSE IF field_mul_inv(rhs).err # "" THEN field_mul_inv(rhs)
    ELSE fragile_mul(self, field_mul_inv(rhs).val)

----------------------------------------------------------------------------
(* base58.rs: a String is modelled by the sequence of its characters *)

BASE58_ALPHABET ==
    <<"1", "2", "3", "4", "5", "6", "7", "8", "9",
      "A", "B", "C", "D", "E", "F", "G", "H", "J", "K", "L", "M", "N",
      "P", "Q", "R", "S", "T", "U", "V", "W", "X", "Y", "Z",
      "a", "b", "c", "d", "e", "f", "g", "h", "i", "j", "k", "m", "n",
      "o", "p", "q", "r", "s", "t", "u", "v", "w", "x", "y", "z">>

\* bytes.iter().take_while(|b| **b == 0).count()
RECURSIVE take_while_zero_count(_)
take_while_zero_count(bs) ==
    IF bs = <<>> \/ bs[1] # 0 THEN 0
    ELSE 1 + take_while_zero_count(SubSeq(bs, 2, Len(bs)))

\* the while loop of encode: the digits of number, least significant first
RECURSIVE encode_loop(_, _)
encode_loop(number, result) ==
    IF number = 0 THEN result
    ELSE encode_loop(number \div 58, Append(result, BASE58_ALPHABET[(number % 58) + 1]))

\* chars().rev().collect()
rev(str) == [i \in 1 .. Len(str) |-> str[Len(str) + 1 - i]]

encode_prefix_first(bs) ==
    LET zeroes_count == take_while_zero_count(bs)
        prefix == [i \in 1 .. zeroes_count |-> "1"]
        number == from_bytes_be(bs)
        result == encode_loop(number, <<>>)
    IN  rev(prefix \o result)
encode(bs) ==
    LET zeroes_count == take_while_zero_count(bs)
        prefix == [i \in 1 .. zeroes_count |-> "1"]
        number == from_bytes_be(bs)
        result == encode_loop(number, <<>>)
    IN  rev(result \o prefix)

----------------------------------------------------------------------------
(* VarInt (varint.rs).  An unsigned integer of w bytes (u8, u16, u32, u64)  *)
(* is written as the sequence of its w digits in radix 256, the most       *)
(* significant first, so that a u64 keeps its 64 bits.                     *)

U8_LIMIT == <<253>>
U16_LIMIT == <<255, 255>>
U32_LIMIT == <<255, 255, 255, 255>>
U64_LIMIT == <<255, 255, 255, 255, 255, 255, 255, 255>>

\* val as uN, N = 8 * w: zero extension to a wider type, the low bytes for a
\* narrower one
uint_as(val, w) ==
    IF w >= Len(val) THEN [i \in 1 .. w - Len(val) |-> 0] \o val
    ELSE SubSeq(val, Len(val) - w + 1, Len(val))

\* a < b for two integers of one type
RECURSIVE uint_lt(_, _)
uint_lt(a, b) ==
    IF a = <<>> THEN FALSE
    ELSE IF a[1] # b[1] THEN a[1] < b[1]
    ELSE uint_lt(Tail(a), Tail(b))

U8(val) == [tag |-> "U8", val |-> val]
U16(val) == [tag |-> "U16", val |-> val]
U32(val) == [tag |-> "U32", val |-> val]
U64(val) == [tag |-> "U64", val |-> val]

varint_Ok(v) == [err |-> "", val |-> v]
varint_Err(e) == [err |-> e, val |-> [tag |-> "", val |-> <<>>]]

VarInt_from_u8_unchecked(val) == U8(val)
VarInt_from_u8(val) ==
    IF uint_lt(val, U8_LIMIT) THEN U8(val)
    ELSE U16(uint_as(val, 2))

VarInt_from_u16(val) ==
    IF uint_lt(val, uint_as(U8_LIMIT, 2)) THEN U8(uint_as(val, 1))
    ELSE IF uint_lt(val, U16_LIMIT) THEN U16(val)
    ELSE U32(uint_as(val, 4))

VarInt_from_u32(val) ==
    IF uint_lt(val, uint_as(U8_LIMIT, 4)) THEN U8(uint_as(val, 1))
    ELSE IF uint_lt(val, uint_as(U16_LIMIT, 4)) THEN U16(uint_as(val, 2))
    ELSE IF uint_lt(val, U32_LIMIT) THEN U32(val)
    ELSE U64(uint_as(val, 8))

VarInt_try_from_u64(val) ==
    IF uint_lt(val, uint_as(U8_LIMIT, 8)) THEN varint_Ok(U8(uint_as(val, 1)))
    ELSE IF uint_lt(val, uint_as(U16_LIMIT, 8)) THEN varint_Ok(U16(uint_as(val, 2)))
    ELSE IF uint_lt(val, uint_as(U32_LIMIT, 8)) THEN varint_Ok(U32(uint_as(val, 4)))
    ELSE IF uint_lt(val, U64_LIMIT) THEN varint_Ok(U64(val))
    ELSE varint_Err("IntToBigForVarInt")

\* val.to_le_bytes(): the least significant byte first
to_le_bytes(val) == [i \in 1 .. Len(val) |-> val[Len(val) + 1 - i]]

\* reader.read_uN::<LittleEndian>() on the bytes left: the integer and the
\* error of a reader that ends before w bytes
read_le(bs, w) ==
    IF Len(bs) < w THEN [err |-> "IoError", val |-> <<>>]
    ELSE [err |-> "", val |-> [i \in 1 .. w |-> bs[w + 1 - i]]]

VarInt_encode_big_endian(v) ==
    CASE v.tag = "U8" -> v.val
      [] v.tag = "U16" -> <<253>> \o v.val
      [] v.tag = "U32" -> <<254>> \o v.val
      [] v.tag = "U64" -> <<255>> \o v.val
VarInt_encode(v) ==
    CASE v.tag = "U8" -> v.val
      [] v.tag = "U16" -> <<253>> \o to_le_bytes(v.val)
      [] v.tag = "U32" -> <<254>> \o to_le_bytes(v.val)
      [] v.tag = "U64" -> <<255>> \o to_le_bytes(v.val)

VarInt_decode(bs) ==
    IF bs = <<>> THEN varint_Err("IoError")
    ELSE LET first_byte == bs[1]
             w == CASE first_byte = 253 -> 2 [] first_byte = 254 -> 4
                    [] first_byte = 255 -> 8 [] OTHER -> 0
             value == read_le(Tail(bs), w)
         IN  IF w = 0 THEN varint_Ok(U8(<<first_byte>>))
             ELSE IF value.err # "" THEN varint_Err(value.err)
             ELSE IF w = 2 THEN varint_Ok(U16(value.val))
             ELSE IF w = 4 THEN varint_Ok(U32(value.val))
             ELSE varint_Ok(U64(value.val))

VarInt_as_u64(v) == uint_as(v.val, 8)

----------------------------------------------------------------------------
(* The Point over a type parameter T (curve.rs), with T = i32 as in its    *)
(* tests: the arithmetic of T is the integers' +, -, * and the division    *)
(* that truncates towards zero (traits.rs, impl_fragile for i32).          *)

EllipticCurve_new(a, b) == [a |-> a, b |-> b]

\* Point::AtInfinity: it has no coordinates and no curve
NoCurve == [a |-> 0, b |-> 0]
generic_AtInfinity == [inf |-> TRUE, x |-> 0, y |-> 0, curve |-> NoCurve]

\* i32 / i32
i32_div(a, b) ==
    LET q == (IF a < 0 THEN -a ELSE a) \div (IF b < 0 THEN -b ELSE b)
    IN  IF (a < 0) = (b < 0) THEN q ELSE -q

generic_contains(curve, x, y) ==
    LET lhs == y * y
        rhs == x * x * x + curve.a * x + curve.b
    IN  lhs = rhs

generic_Normal(x, y, curve) == [inf |-> FALSE, x |-> x, y |-> y, curve |-> curve]

generic_Ok(pt) == [err |-> "", val |-> pt]
generic_Err(e) == [err |-> e, val |-> generic_AtInfinity]

generic_Point_new(x, y, curve) ==
    IF generic_contains(curve, x, y) THEN generic_Ok(generic_Normal(x, y, curve))
    ELSE generic_Err("PointNotInTheCurve")

same_curve(self, other) ==
    IF ~self.inf /\ ~other.inf THEN self.curve = other.curve ELSE TRUE

generic_fragile_add(self, rhs) ==
    IF ~same_curve(self, rhs) THEN generic_Err("PointsNotInTheSameCurve")
    ELSE IF self.inf THEN generic_Ok(rhs)
    ELSE IF rhs.inf THEN generic_Ok(self)
    ELSE LET x1 == self.x
             y1 == self.y
             x2 == rhs.x
             y2 == rhs.y
             curve == self.curve
         IN  IF x1 = x2 /\ y1 # y2 THEN generic_Ok(generic_AtInfinity)
             ELSE IF x1 = x2 /\ y1 = y2 THEN
                 IF y1 = 0 THEN generic_Ok(generic_AtInfinity)
                 ELSE LET slope == i32_div(x1 * x1 * 3 + curve.a, y1 * 2)
                          x3 == slope * slope - x1 * 2
                          y3 == slope * (x1 - x3) - y1
                      IN  generic_Ok(generic_Normal(x3, y3, curve))
             ELSE LET slope == i32_div(y2 - y1, x2 - x1)
                      x3 == slope * slope - x1 - x2
                      y3 == slope * (x1 - x3) - y1
                  IN  generic_Ok(generic_Normal(x3, y3, curve))

----------------------------------------------------------------------------
(* Transactions and the TxFetcher (core/tx.rs, core/input.rs,              *)
(* core/output.rs, core/script.rs, core/fetcher.rs).  A u32 and a u64 are  *)
(* digit sequences as above.  The id of a transaction, the hex of the      *)
(* reversed hash256 of its serialization, is written as the serialization  *)
(* itself: a digest without collisions.                                    *)

Tx(version, inputs, outputs, locktime, testnet) ==
    [version |-> version, inputs |-> inputs, outputs |-> outputs,
     locktime |-> locktime, testnet |-> testnet]

NoTx == Tx(<<0, 0, 0, 0>>, <<>>, <<>>, <<0, 0, 0, 0, 0, 0, 0, 0>>, FALSE)

tx_Ok(tx) == [err |-> "", tx |-> tx]
tx_Err(e) == [err |-> e, tx |-> NoTx]

\* the bytes of the reader a VarInt takes
VarInt_size(bs) ==
    CASE bs[1] = 253 -> 3 [] bs[1] = 254 -> 5 [] bs[1] = 255 -> 9 [] OTHER -> 1

\* Script::deserialize and Script::serialize are todo!(): they panic
Script_deserialize(bs) == "panic"
Script_serialize(script) == "panic"

\* Input::deserialize: 32 bytes of prev_tx, the u32 prev_idx, the script
Input_deserialize(bs) ==
    IF Len(bs) < 32 THEN "IoError"
    ELSE IF Len(bs) < 32 + 4 THEN "IoError"
    ELSE Script_deserialize(SubSeq(bs, 37, Len(bs)))

\* Output::deserialize: the u64 amount, the script
Output_deserialize(bs) ==
    IF Len(bs) < 8 THEN "IoError"
    ELSE Script_deserialize(SubSeq(bs, 9, Len(bs)))

\* self.inputs.len() as the u64 given to VarInt::try_from
len_as_u64(list) == [i \in 1 .. 8 |-> IF i = 8 THEN Len(list) ELSE 0]

\* Tx::deserialize; the collect() of the inputs (outputs) stops at the first
\* one, which fails or panics
Tx_deserialize(buf, testnet) ==
    LET version == read_le(buf, 4)
        after_version == SubSeq(buf, 5, Len(buf))
        no_inputs == VarInt_decode(after_version)
        after_no_inputs ==
            SubSeq(after_version, VarInt_size(after_version) + 1, Len(after_version))
        no_outputs == VarInt_decode(after_no_inputs)
        after_no_outputs ==
            SubSeq(after_no_inputs, VarInt_size(after_no_inputs) + 1,
                   Len(after_no_inputs))
        locktime == read_le(after_no_outputs, 8)
    IN  IF version.err # "" THEN tx_Err(version.err)
        ELSE IF no_inputs.err # "" THEN tx_Err(no_inputs.err)
        ELSE IF VarInt_as_u64(no_inputs.val) # len_as_u64(<<>>)
        THEN tx_Err(Input_deserialize(after_no_inputs))
        ELSE IF no_outputs.err # "" THEN tx_Err(no_outputs.err)
        ELSE IF VarInt_as_u64(no_outputs.val) # len_as_u64(<<>>)
        THEN tx_Err(Output_deserialize(after_no_outputs))
        ELSE IF locktime.err # "" THEN tx_Err(locktime.err)
        ELSE tx_Ok(Tx(version.val, <<>>, <<>>, locktime.val, testnet))

\* Tx::serialize [err, val]
Tx_serialize(self) ==
    LET no_inputs == VarInt_try_from_u64(len_as_u64(self.inputs))
        no_outputs == VarInt_try_from_u64(len_as_u64(self.outputs))
    IN  IF no_inputs.err # "" THEN [err |-> no_inputs.err, val |-> <<>>]
        ELSE IF no_outputs.err # "" THEN [err |-> no_outputs.err, val |-> <<>>]
        ELSE IF self.inputs # <<>> \/ self.outputs # <<>>
        THEN [err |-> Script_serialize(<<>>), val |-> <<>>]
        ELSE [err |-> "",
              val |-> to_le_bytes(self.version) \o VarInt_encode(no_inputs.val)
                      \o VarInt_encode(no_outputs.val) \o to_le_bytes(self.locktime)]

\* Tx::id [err, val]
Tx_id(self) == Tx_serialize(self)

\* fetch, from the request to the comparison of the ids: what it has to
\* insert, or the error it returns, or "panic".  response is [status, bytes].
fetch_download(tx_id, testnet, response) ==
    LET body == response.bytes
        segwit == body[5] = 0
        chain == SubSeq(body, 1, 4) \o SubSeq(body, 7, Len(body))
        deserialized ==
            IF segwit THEN Tx_deserialize(chain, testnet)
            ELSE Tx_deserialize(body, testnet)
        last_four == read_le(SubSeq(body, Len(body) - 3, Len(body)), 8)
        id == Tx_id(deserialized.tx)
    IN  IF response.status # "ok" THEN tx_Err("HyperError")
        ELSE IF Len(body) < 5 THEN tx_Err("panic")
        ELSE IF segwit /\ Len(body) < 6 THEN tx_Err("panic")
        ELSE IF deserialized.err # "" THEN deserialized
        ELSE IF segwit /\ last_four.err # "" THEN tx_Err(last_four.err)
        ELSE IF id.err # "" THEN tx_Err(id.err)
        ELSE IF id.val # tx_id THEN tx_Err("FetchedInvalidTransaction")
        ELSE IF segwit
        THEN tx_Ok([deserialized.tx EXCEPT !.locktime = last_four.val])
        ELSE deserialized

----------------------------------------------------------------------------
(* Tx::fee (core/tx.rs).  The sums are u64: an addition or a subtraction   *)
(* out of the range panics in a build with overflow checks and wraps in a  *)
(* build without.                                                          *)

\* the digits of a + b + carry, one more than those of a and b
RECURSIVE digits_add(_, _, _)
digits_add(a, b, carry) ==
    IF a = <<>> THEN <<carry>>
    ELSE LET n == Len(a)
             d == a[n] + b[n] + carry
         IN  Append(digits_add(SubSeq(a, 1, n - 1), SubSeq(b, 1, n - 1), d \div 256),
                    d % 256)

\* the digits of a - b - borrow modulo 256^Len(a), after the final borrow
RECURSIVE digits_sub(_, _, _)
digits_sub(a, b, borrow) ==
    IF a = <<>> THEN <<borrow>>
    ELSE LET n == Len(a)
             d == a[n] - b[n] - borrow
         IN  Append(digits_sub(SubSeq(a, 1, n - 1), SubSeq(b, 1, n - 1),
                               IF d < 0 THEN 1 ELSE 0),
                    (d + 256) % 256)

\* a + b and a - b of u64: [err, val]
u64_add(a, b, overflow_checks) ==
    LET sum == digits_add(a, b, 0)
    IN  IF sum[1] # 0 /\ overflow_checks THEN [err |-> "panic", val |-> <<>>]
        ELSE [err |-> "", val |-> Tail(sum)]

u64_sub(a, b, overflow_checks) ==
    LET difference == digits_sub(a, b, 0)
    IN  IF difference[1] # 0 /\ overflow_checks THEN [err |-> "panic", val |-> <<>>]
        ELSE [err |-> "", val |-> Tail(difference)]

u64_zero == [i \in 1 .. 8 |-> 0]

Output(amount) == [amount |-> amount]
Input(prev_idx) == [prev_idx |-> prev_idx]

\* Input::value: tx.outputs[self.prev_idx as usize].amount, [err, val]
Input_value(self, tx) ==
    IF self.prev_idx + 1 > Len(tx.outputs) THEN [err |-> "panic", val |-> <<>>]
    ELSE [err |-> "", val |-> tx.outputs[self.prev_idx + 1].amount]

\* the for loop of fee from input i on; prev[i] is what fetch_tx returns
RECURSIVE fee_inputs(_, _, _, _, _)
fee_inputs(inputs, prev, i, input_sum, overflow_checks) ==
    IF i > Len(inputs) THEN [err |-> "", val |-> input_sum]
    ELSE LET prev_tx == prev[i]
             value == Input_value(inputs[i], prev_tx.tx)
             sum == u64_add(input_sum, value.val, overflow_checks)
         IN  IF prev_tx.err # "" THEN [err |-> prev_tx.err, val |-> <<>>]
             ELSE IF value.err # "" THEN value
             ELSE IF sum.err # "" THEN sum
             ELSE fee_inputs(inputs, prev, i + 1, sum.val, overflow_checks)

\* self.outputs.iter().map(|output| output.amount).sum()
RECURSIVE sum_amounts(_, _, _, _)
sum_amounts(outputs, i, acc_sum, overflow_checks) ==
    IF i > Len(outputs) THEN [err |-> "", val |-> acc_sum]
    ELSE LET sum == u64_add(acc_sum, outputs[i].amount, overflow_checks)
         IN  IF sum.err # "" THEN sum
             ELSE sum_amounts(outputs, i + 1, sum.val, overflow_checks)

Tx_fee(self, prev, overflow_checks) ==
    LET input_sum == fee_inputs(self.inputs, prev, 1, u64_zero, overflow_checks)
        output_sum == sum_amounts(self.outputs, 1, u64_zero, overflow_checks)
    IN  IF input_sum.err # "" THEN input_sum
        ELSE IF output_sum.err # "" THEN output_sum
        ELSE u64_sub(input_sum.val, output_sum.val, overflow_checks)

----------------------------------------------------------------------------
(* Field specification: operations applied to elements built by the API *)

Exps ==
    (-MaxExp .. MaxExp)
    \cup {PRIME - 2, PRIME - 1}
    \cup {-(PRIME - 2), -(PRIME - 1), -PRIME}

FieldIdle == fa = 0 /\ fb = 0 /\ fe = 0 /\ fr = 0

CurveIdle ==
    /\ P = AtInfinity /\ Q = AtInfinity /\ R = AtInfinity
    /\ k = 0 /\ acc = AtInfinity /\ cerr = "" /\ divs = {}

NoSer == [err |-> "", val |-> <<>>]

SecIdle == bytes = <<>> /\ compressed = FALSE /\ ser = NoSer

NoSig == [err |-> "", r |-> 0, s |-> 0]

NoCall == [k |-> 0, sig |-> NoSig]

NoElem == [err |-> "", val |-> [prime |-> 0, number |-> 0]]

CodecIdle == b58 = <<>>

GfIdle ==
    /\ ga = NoElem /\ gb = NoElem /\ gr = NoElem
    /\ gin = [n |-> 0, p |-> 0, m |-> 0, q |-> 0]

NoVarInt == [err |-> "", val |-> [tag |-> "", val |-> <<>>]]

VarIntIdle ==
    /\ vn = [ty |-> "", val |-> <<>>]
    /\ vint = NoVarInt /\ venc = <<>> /\ vdec = NoVarInt /\ vu64 = <<>>

NoPoint == [err |-> "", val |-> generic_AtInfinity]

GcurveIdle == gp = NoPoint /\ gq = NoPoint /\ gpq = NoPoint /\ gqp = NoPoint

FetchIdle ==
    /\ cache = <<>> /\ fpc = <<>> /\ fargs = <<>>
    /\ fresp = <<>> /\ fres = <<>> /\ fcalls = <<>>

NoFee == [err |-> "none", val |-> <<>>]

FeeIdle == feetx = <<>> /\ feeprev = <<>> /\ feeres = NoFee

CoreIdle == VarIntIdle /\ GcurveIdle /\ FetchIdle /\ FeeIdle

RestIdle == CodecIdle /\ GfIdle /\ CoreIdle

SignIdle ==
    /\ key = [secret |-> 0, pub_key |-> AtInfinity]
    /\ digest = <<>>
    /\ hmac = [k |-> <<>>, v |-> <<>>]
    /\ sig = NoSig
    /\ valid = ""
    /\ dsig = NoSig
    /\ calls = 0
    /\ first = NoCall
    /\ refused = {}

FieldInit ==
    /\ \E n \in 0 .. MaxRaw, m \in 0 .. MaxRaw :
        /\ op = "new"
        /\ fe = n
        /\ fa = FieldElement_new(n)
        /\ fb = FieldElement_new(m)
        /\ fr = FieldElement_new(n)
    /\ CurveIdle
    /\ SecIdle
    /\ SignIdle
    /\ RestIdle

FAdd ==
    /\ op' = "add"
    /\ fr' = add(fa, fb)
    /\ fe' = 0
    /\ UNCHANGED <<fa, fb, curveVars, secVars, signVars, restVars>>

FSub ==
    /\ op' = "sub"
    /\ fr' = sub(fa, fb)
    /\ fe' = 0
    /\ UNCHANGED <<fa, fb, curveVars, secVars, signVars, restVars>>

FMul ==
    /\ op' = "mul"
    /\ fr' = mul(fa, fb)
    /\ fe' = 0
    /\ UNCHANGED <<fa, fb, curveVars, secVars, signVars, restVars>>

FDiv ==
    /\ op' = "div"
    /\ fr' = div(fa, fb)
    /\ fe' = 0
    /\ UNCHANGED <<fa, fb, curveVars, secVars, signVars, restVars>>

FAddInv ==
    /\ op' = "add_inv"
    /\ fr' = add_inv(fa)
    /\ fe' = 0
    /\ UNCHANGED <<fa, fb, curveVars, secVars, signVars, restVars>>

FMulInv ==
    /\ op' = "mul_inv"
    /\ fr' = mul_inv(fa)
    /\ fe' = 0
    /\ UNCHANGED <<fa, fb, curveVars, secVars, signVars, restVars>>

FZero ==
    /\ op' = "zero"
    /\ fr' = FieldElement_zero
    /\ fe' = 0
    /\ UNCHANGED <<fa, fb, curveVars, secVars, signVars, restVars>>

FOne ==
    /\ op' = "one"
    /\ fr' = FieldElement_one
    /\ fe' = 0
    /\ UNCHANGED <<fa, fb, curveVars, secVars, signVars, restVars>>

FPow ==
    \E e \in Exps :
        /\ op' = "pow"
        /\ fe' = e
        /\ fr' = pow(fa, e)
        /\ UNCHANGED <<fa, fb, curveVars, secVars, signVars, restVars>>

\* the caller passes the element an operation returned to the next operation
FUseResult ==
    /\ op # "use"
    /\ op' = "use"
    /\ \/ fa' = fr /\ fb' = fb
       \/ fa' = fa /\ fb' = fr
    /\ fe' = 0
    /\ UNCHANGED <<fr, curveVars, secVars, signVars, restVars>>

FieldNext ==
    \/ FAdd \/ FSub \/ FMul \/ FDiv \/ FAddInv \/ FMulInv
    \/ FZero \/ FOne \/ FPow \/ FUseResult

SpecField == FieldInit /\ [][FieldNext]_vars

----------------------------------------------------------------------------
(* Curve specification: points built by Point::new, added and multiplied,  *)
(* each result usable as an operand of the next operation.  The variant    *)
(* Point::Normal is public; Normal(x, 0) is built with it to reach the     *)
(* vertical-tangent case of the addition, which no point of the curve has. *)

FieldElements == 0 .. PRIME     \* what new (0..PRIME-1) and add_inv (PRIME) return

CurveInit ==
    /\ fe = 0 /\ fr = 0
    /\ SecIdle
    /\ SignIdle
    /\ RestIdle
    /\ Q = AtInfinity /\ k = 0 /\ acc = AtInfinity /\ divs = {}
    /\ \/ \E x \in FieldElements, y \in FieldElements :
            /\ op = "Point_new"
            /\ fa = x /\ fb = y
            /\ R = Point_new(x, y).val
            /\ cerr = Point_new(x, y).err
            /\ P = Point_new(x, y).val
       \/ \E x \in FieldElements :
            /\ op = "Normal"
            /\ fa = x /\ fb = FieldElement_zero
            /\ R = Normal(x, FieldElement_zero)
            /\ cerr = ""
            /\ P = Normal(x, FieldElement_zero)

CAdd ==
    /\ cerr = ""
    /\ op' = "add"
    /\ R' = Point_add(P, Q)
    /\ divs' = Point_add_divs(P, Q)
    /\ k' = 0
    /\ fa' = 0 /\ fb' = 0
    /\ UNCHANGED <<fe, fr, P, Q, acc, cerr, secVars, signVars, restVars>>

CMul ==
    /\ cerr = ""
    /\ \E coef \in 0 .. MaxChainScalar :
        /\ op' = "mul"
        /\ k' = coef
        /\ R' = Point_mul(P, coef)
        /\ divs' = Point_mul_divs(P, coef)
    /\ fa' = 0 /\ fb' = 0
    /\ UNCHANGED <<fe, fr, P, Q, acc, cerr, secVars, signVars, restVars>>

\* the caller passes the point an operation returned to the next operation
CUseResult ==
    /\ cerr = ""
    /\ op \in {"add", "mul", "Point_new", "Normal"}
    /\ op' = "use"
    /\ \/ P' = R /\ Q' = Q
       \/ P' = P /\ Q' = R
    /\ fa' = 0 /\ fb' = 0 /\ k' = 0 /\ divs' = {}
    /\ UNCHANGED <<fe, fr, R, acc, cerr, secVars, signVars, restVars>>

CurveNext == CAdd \/ CMul \/ CUseResult

SpecCurve == CurveInit /\ [][CurveNext]_vars

----------------------------------------------------------------------------
(* Scalar multiplication against repeated addition: for a point P built by *)
(* Point::new, the scalar grows by one at each step while acc adds P once  *)
(* more.                                                                   *)

MulInit ==
    /\ FieldIdle
    /\ SecIdle
    /\ SignIdle
    /\ RestIdle
    /\ \E x \in FieldElements, y \in FieldElements :
        /\ Point_new(x, y).err = ""
        /\ P = Point_new(x, y).val
    /\ op = "mul"
    /\ k = 0
    /\ R = Point_mul(P, 0)
    /\ acc = AtInfinity
    /\ Q = AtInfinity /\ cerr = "" /\ divs = {}

MulNext ==
    /\ k < MaxScalar
    /\ op' = "mul"
    /\ k' = k + 1
    /\ R' = Point_mul(P, k + 1)
    /\ acc' = Point_add(acc, P)
    /\ divs' = Point_mul_divs(P, k + 1)
    /\ UNCHANGED <<fieldVars, P, Q, cerr, secVars, signVars, restVars>>

SpecMul == MulInit /\ [][MulNext]_vars

----------------------------------------------------------------------------
(* SEC specification: Point::deserialize applied to byte strings of every  *)
(* length from 0 to 1 + 2*CoordLen + 1, and Point::serialize applied to    *)
(* the public key of a secret, to a Normal point built from two field      *)
(* elements and to the point at infinity, its output given to deserialize. *)

SecTags == {0, 2, 3, 4, 255}
CoordBytes == 0 .. MaxCoordByte

SecInputs ==
    {<<>>}
    \cup {<<t>> : t \in SecTags}
    \cup {<<t, x>> : t \in SecTags, x \in {0, GX}}
    \cup {<<t, xh, xl>> : t \in SecTags, xh \in {0, 1, 255}, xl \in Byte}
    \cup {<<t, 0, x, y>> : t \in SecTags, x \in {0, GX}, y \in {0, GY}}
    \cup {<<t, xh, xl, 0, yl>> :
             t \in SecTags, xh \in {0, 1}, xl \in CoordBytes, yl \in CoordBytes}
    \cup {<<t, 0, x, 0, y, 0>> : t \in SecTags, x \in {0, GX}, y \in {0, GY}}

SecInit ==
    /\ FieldIdle
    /\ SignIdle
    /\ RestIdle
    /\ Q = AtInfinity /\ R = AtInfinity /\ acc = AtInfinity
    /\ cerr = "" /\ divs = {}
    /\ compressed = FALSE /\ ser = NoSer
    /\ \/ /\ op = "bytes"
          /\ bytes \in SecInputs
          /\ k = 0 /\ P = AtInfinity
       \/ /\ op = "point"
          /\ bytes = <<>>
          /\ \E secret \in 0 .. MaxSecKey :
                /\ k = secret
                /\ P = PrivateKey_new(secret).pub_key
       \/ /\ op = "point"
          /\ bytes = <<>>
          /\ k = 0
          /\ \E x \in FieldElements, y \in FieldElements : P = Normal(x, y)

Serialize ==
    /\ op = "point"
    /\ op' = "serialize"
    /\ \E compr \in BOOLEAN :
        /\ compressed' = compr
        /\ ser' = Point_serialize(P, compr)
        /\ bytes' = Point_serialize(P, compr).val
    /\ UNCHANGED <<fieldVars, curveVars, signVars, restVars>>

Deserialize ==
    /\ \/ op = "bytes"
       \/ op = "serialize" /\ ser.err = ""
    /\ op' = "deserialize"
    /\ R' = Point_deserialize(bytes).val
    /\ cerr' = Point_deserialize(bytes).err
    /\ UNCHANGED <<fieldVars, P, Q, k, acc, divs, secVars, signVars, restVars>>

SecNext == Serialize \/ Deserialize

SpecSec == SecInit /\ [][SecNext]_vars

----------------------------------------------------------------------------
(* ECDSA specification: a key is built from a secret, signs a digest (the  *)
(* loop of deterministic_k takes one step per turn) and the public key     *)
(* checks the signature.                                                   *)

Digests ==
    {[i \in 1 .. CoordLen |-> IF i = CoordLen THEN d ELSE h] :
        h \in {0, 255},
        d \in (0 .. MaxDigest) \cup (255 - MaxDigest .. 255) \cup {ORDER}}

\* the largest secret that fits the byte width of a secret
SecretLimit == from_bytes_be([i \in 1 .. CoordLen |-> 255])

Secrets == (0 .. MaxSecret) \cup {SecretLimit, SecretLimit + 1}

SignInit ==
    /\ FieldIdle
    /\ CurveIdle
    /\ SecIdle
    /\ op = "PrivateKey_new"
    /\ \E secret \in Secrets : key = PrivateKey_new(secret)
    /\ digest \in Digests
    /\ hmac = [k |-> <<>>, v |-> <<>>]
    /\ sig = NoSig
    /\ valid = ""
    /\ dsig = NoSig
    /\ calls = 0
    /\ first = NoCall
    /\ refused = {}
    /\ RestIdle

\* create_signature enters deterministic_k, which starts from its own k and v
\* at every call; OverflowPadding ends it.  The first call follows
\* PrivateKey::new, the second the return of the first.
NonceInit_state_kept ==
    /\ \/ op = "PrivateKey_new" /\ calls = 0
       \/ op = "create_signature" /\ calls = 1
    /\ calls' = calls + 1
    /\ first' = IF calls = 1 THEN [k |-> k, sig |-> sig] ELSE first
    /\ refused' = {}
    /\ k' = 0
    /\ LET st == deterministic_k_init(key, digest)
       IN  IF st.err # ""
           THEN /\ op' = "create_signature"
                /\ sig' = [err |-> st.err, r |-> 0, s |-> 0]
                /\ UNCHANGED hmac
           ELSE /\ op' = "deterministic_k"
                /\ hmac' = IF calls = 1 THEN hmac ELSE [k |-> st.k, v |-> st.v]
                /\ sig' = NoSig
    /\ UNCHANGED <<fieldVars, P, Q, R, acc, cerr, divs, secVars, key, digest, valid,
                   dsig, restVars>>
NonceInit ==
    /\ \/ op = "PrivateKey_new" /\ calls = 0
       \/ op = "create_signature" /\ calls = 1
    /\ calls' = calls + 1
    /\ first' = IF calls = 1 THEN [k |-> k, sig |-> sig] ELSE first
    /\ refused' = {}
    /\ k' = 0
    /\ LET st == deterministic_k_init(key, digest)
       IN  IF st.err # ""
           THEN /\ op' = "create_signature"
                /\ sig' = [err |-> st.err, r |-> 0, s |-> 0]
                /\ UNCHANGED hmac
           ELSE /\ op' = "deterministic_k"
                /\ hmac' = [k |-> st.k, v |-> st.v]
                /\ sig' = NoSig
    /\ UNCHANGED <<fieldVars, P, Q, R, acc, cerr, divs, secVars, key, digest, valid,
                   dsig, restVars>>

\* a turn of the loop that refuses its candidate
NonceRetry ==
    /\ op = "deterministic_k"
    /\ LET t == deterministic_k_turn(hmac)
       IN  /\ ~t.accepted
           /\ hmac' = [k |-> t.k, v |-> t.v]
           /\ refused' = refused \cup {t.candidate}
    /\ UNCHANGED <<op, fieldVars, curveVars, secVars, key, digest, sig, valid, dsig,
                   calls, first, restVars>>

\* the turn that accepts its candidate (v holds its bytes), and the rest of
\* create_signature
CreateSignature ==
    /\ op = "deterministic_k"
    /\ LET t == deterministic_k_turn(hmac)
       IN  /\ t.accepted
           /\ k' = t.candidate
           /\ hmac' = [k |-> hmac.k, v |-> hmac_sha256(hmac.k, hmac.v)]
           /\ sig' = create_signature_with(key, digest, t.candidate)
    /\ op' = "create_signature"
    /\ UNCHANGED <<fieldVars, P, Q, R, acc, cerr, divs, secVars, key, digest,
                   valid, dsig, calls, first, refused, restVars>>

\* priv_key.public_key().valid_signature(&digest, &signature)
ValidSignature ==
    /\ op = "create_signature"
    /\ sig.err = ""
    /\ op' = "valid_signature"
    /\ valid' = Signature_is_valid(sig, digest, key.pub_key)
    /\ UNCHANGED <<fieldVars, curveVars, secVars, key, digest, hmac, sig, dsig,
                   calls, first, refused, restVars>>

SignNext == NonceInit \/ NonceRetry \/ CreateSignature \/ ValidSignature

SpecSign == SignInit /\ [][SignNext]_vars

----------------------------------------------------------------------------
(* DER specification: Signature::new(r, s) is serialized and the bytes are *)
(* given to Signature::deserialize; deserialize is also applied to byte    *)
(* strings that are not the output of serialize.                           *)

DerInts == (0 .. MaxDerInt) \cup {255, 256, 32767, 32768, 65535, 65536}

\* sequences over alphabet of length 0 .. n
RECURSIVE SeqsUpTo(_, _)
SeqsUpTo(alphabet, n) ==
    IF n = 0 THEN {<<>>}
    ELSE LET shorter == SeqsUpTo(alphabet, n - 1)
         IN  shorter \cup {Append(q, b) : q \in shorter, b \in alphabet}

DerInputs ==
    SeqsUpTo({48, 2}, 3)
    \cup {<<b0, b1, b2, b3>> \o rest :
             b0 \in {48, 49},
             b1 \in (2 .. MaxDerLen) \cup {254, 255},
             b2 \in {2, 3},
             b3 \in {0, 1, 2, 255},
             rest \in SeqsUpTo({1, 2}, MaxDerLen - 2)}

DerInit ==
    /\ FieldIdle
    /\ CurveIdle
    /\ compressed = FALSE
    /\ ser = NoSer
    /\ key = [secret |-> 0, pub_key |-> AtInfinity]
    /\ digest = <<>>
    /\ hmac = [k |-> <<>>, v |-> <<>>]
    /\ valid = ""
    /\ dsig = NoSig
    /\ calls = 0
    /\ first = NoCall
    /\ refused = {}
    /\ RestIdle
    /\ \/ /\ op = "Signature_new"
          /\ \E r \in DerInts, s \in DerInts : sig = [err |-> "", r |-> r, s |-> s]
          /\ bytes = <<>>
       \/ /\ op = "der_bytes"
          /\ sig = NoSig
          /\ bytes \in DerInputs

DerSerialize ==
    /\ op = "Signature_new"
    /\ op' = "der_serialize"
    /\ ser' = Signature_serialize(sig)
    /\ bytes' = Signature_serialize(sig).val
    /\ UNCHANGED <<fieldVars, curveVars, compressed, signVars, restVars>>

DerDeserialize ==
    /\ \/ op = "der_bytes"
       \/ op = "der_serialize" /\ ser.err = ""
    /\ op' = "der_deserialize"
    /\ \E overflow_checks \in BOOLEAN :
           dsig' = Signature_deserialize(bytes, overflow_checks)
    /\ UNCHANGED <<fieldVars, curveVars, secVars, key, digest, hmac, sig, valid,
                   calls, first, refused, restVars>>

DerNext == DerSerialize \/ DerDeserialize

SpecDer == DerInit /\ [][DerNext]_vars

----------------------------------------------------------------------------
(* Verification specification: Signature::new(r, s) with any r and s, also *)
(* 0 and values >= ORDER, is checked against a digest and the public key   *)
(* of a secret (the point at infinity for the secret 0).                   *)

VerifyDigests == Digests \cup {<<>>, [i \in 1 .. CoordLen + 1 |-> 1]}

VerifyInit ==
    /\ FieldIdle
    /\ CurveIdle
    /\ SecIdle
    /\ op = "Signature_new"
    /\ \E secret \in 0 .. MaxVerifySecret : key = PrivateKey_new(secret)
    /\ digest \in VerifyDigests
    /\ hmac = [k |-> <<>>, v |-> <<>>]
    /\ \E r \in 0 .. MaxSigInt, s \in 0 .. MaxSigInt : sig = [err |-> "", r |-> r, s |-> s]
    /\ valid = ""
    /\ dsig = NoSig
    /\ calls = 0
    /\ first = NoCall
    /\ refused = {}
    /\ RestIdle

IsValid ==
    /\ op = "Signature_new"
    /\ op' = "is_valid"
    /\ valid' = Signature_is_valid(sig, digest, key.pub_key)
    /\ UNCHANGED <<fieldVars, curveVars, secVars, key, digest, hmac, sig, dsig,
                   calls, first, refused, restVars>>

VerifyNext == IsValid

SpecVerify == VerifyInit /\ [][VerifyNext]_vars

----------------------------------------------------------------------------
(* Base58 specification: encode applied to byte strings of 0 to 3 bytes    *)

Base58Bytes == (0 .. MaxBase58Byte) \cup {57, 58, 59, 128, 255}

Base58Init ==
    /\ FieldIdle
    /\ CurveIdle
    /\ SignIdle
    /\ GfIdle
    /\ CoreIdle
    /\ compressed = FALSE /\ ser = NoSer
    /\ op = "base58_bytes"
    /\ bytes \in SeqsUpTo(Base58Bytes, 3)
    /\ b58 = <<>>

Encode ==
    /\ op = "base58_bytes"
    /\ op' = "encode"
    /\ b58' = encode(bytes)
    /\ UNCHANGED <<fieldVars, curveVars, secVars, signVars, gfVars, coreVars>>

Base58Next == Encode

SpecBase58 == Base58Init /\ [][Base58Next]_vars

----------------------------------------------------------------------------
(* Generic field specification: two elements are built by                  *)
(* FieldElement::new(number, prime), and, when both were built, added,     *)
(* subtracted, multiplied and divided.                                     *)

GfPrimes == {0, 1, 2, 3, 5, 13}

GfInit ==
    /\ FieldIdle
    /\ CurveIdle
    /\ SecIdle
    /\ SignIdle
    /\ CodecIdle
    /\ CoreIdle
    /\ op = "field_new"
    /\ \E n \in 0 .. MaxGfNumber, m \in 0 .. MaxGfNumber, p \in GfPrimes, q \in GfPrimes :
        /\ gin = [n |-> n, p |-> p, m |-> m, q |-> q]
        /\ ga = field_FieldElement_new(n, p)
        /\ gb = field_FieldElement_new(m, q)
    /\ gr = NoElem

GAdd ==
    /\ op = "field_new" /\ ga.err = "" /\ gb.err = ""
    /\ op' = "fragile_add"
    /\ gr' = fragile_add(ga.val, gb.val)
    /\ UNCHANGED <<fieldVars, curveVars, secVars, signVars, codecVars, ga, gb, gin, coreVars>>

GSub ==
    /\ op = "field_new" /\ ga.err = "" /\ gb.err = ""
    /\ op' = "fragile_sub"
    /\ gr' = fragile_sub(ga.val, gb.val)
    /\ UNCHANGED <<fieldVars, curveVars, secVars, signVars, codecVars, ga, gb, gin, coreVars>>

GMul ==
    /\ op = "field_new" /\ ga.err = "" /\ gb.err = ""
    /\ op' = "fragile_mul"
    /\ gr' = fragile_mul(ga.val, gb.val)
    /\ UNCHANGED <<fieldVars, curveVars, secVars, signVars, codecVars, ga, gb, gin, coreVars>>

GDiv ==
    /\ op = "field_new" /\ ga.err = "" /\ gb.err = ""
    /\ op' = "fragile_div"
    /\ gr' = fragile_div(ga.val, gb.val)
    /\ UNCHANGED <<fieldVars, curveVars, secVars, signVars, codecVars, ga, gb, gin, coreVars>>

GfNext == GAdd \/ GSub \/ GMul \/ GDiv

SpecGf == GfInit /\ [][GfNext]_vars

----------------------------------------------------------------------------
(* VarInt specification: an integer of one of the four types is converted, *)
(* and the VarInt is encoded, the bytes decoded, and the VarInt read back   *)
(* as a u64.                                                               *)

\* the digits of the u8, u16 and u32 given: the small ones and the four
\* around the markers
VarIntDigits == (0 .. MaxVarIntDigit) \cup {252, 253, 254, 255}

\* the upper half of the u64 given
VarIntHigh == [1 .. 4 -> {0, 255}] \cup {<<0, 0, 0, 1>>}

VarIntInputs ==
    {[ty |-> "u8", val |-> v] : v \in [1 .. 1 -> VarIntDigits]}
    \cup {[ty |-> "u16", val |-> v] : v \in [1 .. 2 -> VarIntDigits]}
    \cup {[ty |-> "u32", val |-> v] : v \in [1 .. 4 -> VarIntDigits]}
    \cup {[ty |-> "u64", val |-> hi \o lo] :
              hi \in VarIntHigh, lo \in [1 .. 4 -> VarIntDigits]}

VarIntInit ==
    /\ FieldIdle
    /\ CurveIdle
    /\ SecIdle
    /\ SignIdle
    /\ CodecIdle
    /\ GfIdle
    /\ op = "varint_input"
    /\ vn \in VarIntInputs
    /\ vint = NoVarInt /\ venc = <<>> /\ vdec = NoVarInt /\ vu64 = <<>>
    /\ GcurveIdle
    /\ FetchIdle
    /\ FeeIdle

FromU8 ==
    /\ op = "varint_input" /\ vn.ty = "u8"
    /\ op' = "from"
    /\ vint' = varint_Ok(VarInt_from_u8(vn.val))
    /\ UNCHANGED <<fieldVars, curveVars, secVars, signVars, codecVars, gfVars,
                   gcurveVars, fetchVars, feeVars, vn, venc, vdec, vu64>>

FromU16 ==
    /\ op = "varint_input" /\ vn.ty = "u16"
    /\ op' = "from"
    /\ vint' = varint_Ok(VarInt_from_u16(vn.val))
    /\ UNCHANGED <<fieldVars, curveVars, secVars, signVars, codecVars, gfVars,
                   gcurveVars, fetchVars, feeVars, vn, venc, vdec, vu64>>

FromU32 ==
    /\ op = "varint_input" /\ vn.ty = "u32"
    /\ op' = "from"
    /\ vint' = varint_Ok(VarInt_from_u32(vn.val))
    /\ UNCHANGED <<fieldVars, curveVars, secVars, signVars, codecVars, gfVars,
                   gcurveVars, fetchVars, feeVars, vn, venc, vdec, vu64>>

TryFromU64 ==
    /\ op = "varint_input" /\ vn.ty = "u64"
    /\ op' = "try_from"
    /\ vint' = VarInt_try_from_u64(vn.val)
    /\ UNCHANGED <<fieldVars, curveVars, secVars, signVars, codecVars, gfVars,
                   gcurveVars, fetchVars, feeVars, vn, venc, vdec, vu64>>

VarIntEncode ==
    /\ op \in {"from", "try_from", "as_u64"} /\ vint.err = "" /\ venc = <<>>
    /\ op' = "varint_encode"
    /\ venc' = VarInt_encode(vint.val)
    /\ UNCHANGED <<fieldVars, curveVars, secVars, signVars, codecVars, gfVars,
                   gcurveVars, fetchVars, feeVars, vn, vint, vdec, vu64>>

VarIntDecode ==
    /\ venc # <<>> /\ vdec = NoVarInt
    /\ op' = "varint_decode"
    /\ vdec' = VarInt_decode(venc)
    /\ UNCHANGED <<fieldVars, curveVars, secVars, signVars, codecVars, gfVars,
                   gcurveVars, fetchVars, feeVars, vn, vint, venc, vu64>>

VarIntAsU64 ==
    /\ op # "varint_input" /\ vint.err = "" /\ vu64 = <<>>
    /\ op' = "as_u64"
    /\ vu64' = VarInt_as_u64(vint.val)
    /\ UNCHANGED <<fieldVars, curveVars, secVars, signVars, codecVars, gfVars,
                   gcurveVars, fetchVars, feeVars, vn, vint, venc, vdec>>

VarIntNext ==
    \/ FromU8 \/ FromU16 \/ FromU32 \/ TryFromU64
    \/ VarIntEncode \/ VarIntDecode \/ VarIntAsU64

SpecVarInt == VarIntInit /\ [][VarIntNext]_vars

----------------------------------------------------------------------------
(* Generic curve specification: two points are built by Point::new on one  *)
(* of two curves, or are the point at infinity, and added in both orders.  *)

GcCurves == {EllipticCurve_new(5, 7), EllipticCurve_new(0, 1)}

GcPoints ==
    {generic_Ok(generic_AtInfinity)}
    \cup {generic_Point_new(x, y, c) :
              x \in -1 .. MaxGcX, y \in -MaxGcY .. MaxGcY, c \in GcCurves}

GcurveInit ==
    /\ FieldIdle
    /\ CurveIdle
    /\ SecIdle
    /\ SignIdle
    /\ CodecIdle
    /\ GfIdle
    /\ VarIntIdle
    /\ FetchIdle
    /\ FeeIdle
    /\ op = "generic_point"
    /\ \E x \in -1 .. MaxGcX, y \in -MaxGcY .. MaxGcY, c \in GcCurves :
        gp \in {generic_Ok(generic_AtInfinity), generic_Point_new(x, y, c)}
    /\ gq \in GcPoints
    /\ gpq = NoPoint /\ gqp = NoPoint

GcAdd ==
    /\ gp.err = "" /\ gq.err = ""
    /\ op \in {"generic_point", "generic_add_swapped"} /\ gpq = NoPoint
    /\ op' = "generic_add"
    /\ gpq' = generic_fragile_add(gp.val, gq.val)
    /\ UNCHANGED <<fieldVars, curveVars, secVars, signVars, codecVars, gfVars,
                   varintVars, fetchVars, feeVars, gp, gq, gqp>>

GcAddSwapped ==
    /\ gp.err = "" /\ gq.err = ""
    /\ op \in {"generic_point", "generic_add"} /\ gqp = NoPoint
    /\ op' = "generic_add_swapped"
    /\ gqp' = generic_fragile_add(gq.val, gp.val)
    /\ UNCHANGED <<fieldVars, curveVars, secVars, signVars, codecVars, gfVars,
                   varintVars, fetchVars, feeVars, gp, gq, gpq>>

GcurveNext == GcAdd \/ GcAddSwapped

SpecGcurve == GcurveInit /\ [][GcurveNext]_vars

----------------------------------------------------------------------------
(* TxFetcher specification: tasks call fetch on the shared TX_FETCHER.  A  *)
(* step of a task is one access to the DashMap, with what the task does on *)
(* its own before it; the requests are answered by the network with any    *)
(* response.                                                               *)

Tasks == 1 .. NumTasks

Version1 == <<0, 0, 0, 1>>
LocktimeA == <<0, 0, 0, 0, 0, 0, 0, 0>>
LocktimeB == <<0, 0, 0, 0, 0, 0, 0, 1>>

\* the two transactions a response can hold: no input, no output
TxA == Tx(Version1, <<>>, <<>>, LocktimeA, FALSE)
TxB == Tx(Version1, <<>>, <<>>, LocktimeB, FALSE)

TxIds == {Tx_id(TxA).val, Tx_id(TxB).val}

\* a body Tx::deserialize reads tx from without meeting the marker 0x00 at
\* byte 4: the number of inputs written as 0xfd 0x00 0x00
BodyOf(tx) ==
    to_le_bytes(tx.version) \o <<253, 0, 0>> \o <<0>> \o to_le_bytes(tx.locktime)

\* the body cut after n bytes: nothing, the first byte of the number of
\* inputs, all but the last byte
Truncated(body) == {SubSeq(body, 1, n) : n \in {0, 5, Len(body) - 1}}

FetchBodies ==
    {BodyOf(TxA), BodyOf(TxB)}
    \cup Truncated(BodyOf(TxA))
    \* the serialization of TxA, byte 4 is 0x00
    \cup {Tx_serialize(TxA).val}
    \* marker and flag, then no input, no output, the locktime
    \cup {<<1, 0, 0, 0, 0, 1, 0, 0>> \o to_le_bytes(LocktimeA)}
    \cup {<<1, 0, 0, 0, 0>>}
    \* one input of 36 bytes and its script
    \cup {<<1, 0, 0, 0, 1>> \o [i \in 1 .. 36 |-> 0] \o <<0>>}
    \cup {<<1, 0, 0, 0, 1, 0, 0, 0>>}
    \* no input, one output of 8 bytes and its script
    \cup {<<1, 0, 0, 0, 253, 0, 0, 1>> \o [i \in 1 .. 8 |-> 0] \o <<0>>}

Responses ==
    {[status |-> "error", bytes |-> <<>>]}
    \cup {[status |-> "ok", bytes |-> body] : body \in FetchBodies}

NoEntry == [some |-> FALSE, tx |-> NoTx]
NoArgs == [tx_id |-> <<>>, testnet |-> FALSE, fresh |-> FALSE]
NoResponse == [status |-> "", bytes |-> <<>>]
NoResult == [err |-> "none", tx |-> NoTx]

FetchInit ==
    /\ FieldIdle
    /\ CurveIdle
    /\ SecIdle
    /\ SignIdle
    /\ CodecIdle
    /\ GfIdle
    /\ VarIntIdle
    /\ GcurveIdle
    /\ FeeIdle
    /\ op = "fetcher"
    /\ cache = [id \in TxIds |-> NoEntry]
    /\ fpc = [t \in Tasks |-> "idle"]
    /\ fargs = [t \in Tasks |-> NoArgs]
    /\ fresp = [t \in Tasks |-> NoResponse]
    /\ fres = [t \in Tasks |-> NoResult]
    /\ fcalls = [t \in Tasks |-> 0]

\* the calls the first n tasks have made
RECURSIVE CallsMade(_)
CallsMade(n) == IF n = 0 THEN 0 ELSE fcalls[n] + CallsMade(n - 1)

\* a task calls TX_FETCHER.fetch(tx_id, testnet, fresh)
FetchCall(t) ==
    /\ fpc[t] \in {"idle", "done"}
    /\ CallsMade(NumTasks) < MaxFetchCalls
    /\ \E tx_id \in TxIds, testnet \in BOOLEAN, fresh \in BOOLEAN :
        fargs' = [fargs EXCEPT ![t] =
                     [tx_id |-> tx_id, testnet |-> testnet, fresh |-> fresh]]
    /\ fpc' = [fpc EXCEPT ![t] = "contains_key"]
    /\ fresp' = [fresp EXCEPT ![t] = NoResponse]
    /\ fres' = [fres EXCEPT ![t] = NoResult]
    /\ fcalls' = [fcalls EXCEPT ![t] = @ + 1]
    /\ UNCHANGED <<nonFetchVars, cache>>

\* fresh || !self.cache.contains_key(tx_id)
FetchContainsKey(t) ==
    /\ fpc[t] = "contains_key"
    /\ fpc' = [fpc EXCEPT ![t] =
                  IF fargs[t].fresh \/ ~cache[fargs[t].tx_id].some
                  THEN "download" ELSE "get_mut"]
    /\ UNCHANGED <<nonFetchVars, cache, fargs, fresp, fres, fcalls>>

\* the request, the body, the transaction, its id, and cache.insert
FetchDownload(t) ==
    /\ fpc[t] = "download"
    /\ \E response \in Responses :
        LET tx == fetch_download(fargs[t].tx_id, fargs[t].testnet, response)
        IN  /\ fresp' = [fresp EXCEPT ![t] = response]
            /\ IF tx.err # ""
               THEN /\ fres' = [fres EXCEPT ![t] = tx]
                    /\ fpc' = [fpc EXCEPT ![t] = "done"]
                    /\ cache' = cache
               ELSE /\ cache' = [cache EXCEPT ![fargs[t].tx_id] =
                                    [some |-> TRUE, tx |-> tx.tx]]
                    /\ fpc' = [fpc EXCEPT ![t] = "get_mut"]
                    /\ fres' = fres
    /\ UNCHANGED <<nonFetchVars, fargs, fcalls>>

\* self.cache.get_mut(tx_id).unwrap().testnet = testnet
FetchGetMut(t) ==
    /\ fpc[t] = "get_mut"
    /\ IF cache[fargs[t].tx_id].some
       THEN /\ cache' = [cache EXCEPT ![fargs[t].tx_id].tx.testnet = fargs[t].testnet]
            /\ fpc' = [fpc EXCEPT ![t] = "get"]
            /\ fres' = fres
       ELSE /\ cache' = cache
            /\ fpc' = [fpc EXCEPT ![t] = "done"]
            /\ fres' = [fres EXCEPT ![t] = tx_Err("panic")]
    /\ UNCHANGED <<nonFetchVars, fargs, fresp, fcalls>>

\* return Ok(self.cache.get(tx_id).unwrap().value().clone())
FetchGet(t) ==
    /\ fpc[t] = "get"
    /\ fres' = [fres EXCEPT ![t] =
                   IF cache[fargs[t].tx_id].some
                   THEN tx_Ok(cache[fargs[t].tx_id].tx)
                   ELSE tx_Err("panic")]
    /\ fpc' = [fpc EXCEPT ![t] = "done"]
    /\ UNCHANGED <<nonFetchVars, cache, fargs, fresp, fcalls>>

FetchNext ==
    \E t \in Tasks :
        \/ FetchCall(t)
        \/ FetchContainsKey(t)
        \/ FetchDownload(t)
        \/ FetchGetMut(t)
        \/ FetchGet(t)

SpecFetch == FetchInit /\ [][FetchNext]_vars

----------------------------------------------------------------------------
(* Fee specification: fee is called on a transaction of up to two inputs   *)
(* and two outputs; for each input fetch_tx returns an error or a          *)
(* transaction with one output.                                            *)

\* amounts next to 0 and next to 2^64 - 1
FeeAmounts ==
    {[i \in 1 .. 8 |-> IF i = 8 THEN a ELSE 0] : a \in 0 .. MaxFeeAmount}
    \cup {[i \in 1 .. 8 |-> IF i = 8 THEN 255 - a ELSE 255] : a \in 0 .. MaxFeeAmount}

FeeOutputs == {<<>>} \cup {<<Output(a)>> : a \in FeeAmounts}
                \cup {<<Output(a), Output(b)>> : a \in FeeAmounts, b \in FeeAmounts}

FeeFetched ==
    {tx_Err("HyperError")}
    \cup {tx_Ok(Tx(Version1, <<>>, <<Output(a)>>, LocktimeA, FALSE)) : a \in FeeAmounts}

FeeInit ==
    /\ FieldIdle
    /\ CurveIdle
    /\ SecIdle
    /\ SignIdle
    /\ CodecIdle
    /\ GfIdle
    /\ VarIntIdle
    /\ GcurveIdle
    /\ FetchIdle
    /\ op = "tx"
    /\ \E n \in 0 .. 2 :
        /\ \E inputs \in [1 .. n -> {Input(0), Input(1)}], outputs \in FeeOutputs :
               feetx = Tx(Version1, inputs, outputs, LocktimeA, FALSE)
        /\ feeprev \in [1 .. n -> FeeFetched]
    /\ feeres = NoFee

Fee ==
    /\ op = "tx"
    /\ op' = "fee"
    /\ \E overflow_checks \in BOOLEAN :
        feeres' = Tx_fee(feetx, feeprev, overflow_checks)
    /\ UNCHANGED <<fieldVars, curveVars, secVars, signVars, codecVars, gfVars,
                   varintVars, gcurveVars, fetchVars, feetx, feeprev>>

FeeNext == Fee

SpecFee == FeeInit /\ [][FeeNext]_vars

----------------------------------------------------------------------------
(* Reference notions the properties are stated with, in plain integer       *)
(* arithmetic                                                              *)

\* the representative of n in [0, PRIME)
Residue(n) == ((n % PRIME) + PRIME) % PRIME

\* (x, y) satisfies y^2 = x^3 + 7 over F_PRIME, with reduced coordinates
OnCurve(pt) ==
    /\ ~pt.inf
    /\ pt.x \in 0 .. PRIME - 1
    /\ pt.y \in 0 .. PRIME - 1
    /\ (pt.y * pt.y) % PRIME = (pt.x * pt.x * pt.x + 7) % PRIME

OnCurveOrInfinity(pt) == pt = AtInfinity \/ OnCurve(pt)

\* the shortest big-endian digits of n in base 256, none for 0
RECURSIVE Minimal(_)
Minimal(n) == IF n = 0 THEN <<>> ELSE Append(Minimal(n \div 256), n % 256)

\* the integer of DER: the shortest digits, after a 0 when the first is >= 128
DerInteger(n) == IF Minimal(n)[1] >= 128 THEN <<0>> \o Minimal(n) ELSE Minimal(n)

\* the len digits of n in base 256, most significant first
BigEndian(n, len) == [i \in 1 .. len |-> (n \div 256 ^ (len - i)) % 256]

----------------------------------------------------------------------------
(* Properties *)

\* C1: for every secret that fits the byte width of a secret (also one that is
\* >= ORDER or >= PRIME) and every digest, create_signature succeeds and
\* public_key().valid_signature(digest, signature) is true.
C1_SignVerifyRoundTrip ==
    /\ (op = "create_signature" /\ Len(to_bytes_be(key.secret)) <= CoordLen) =>
           sig.err = ""
    /\ op = "valid_signature" => valid = "true"

\* the round trip of C1 for the secrets below PRIME whose signature has s # 0
C1_RoundTripBelowPrime ==
    (op = "valid_signature" /\ key.secret < PRIME /\ sig.s # 0) => valid = "true"

\* C4: a point returned by Point::deserialize, from the compressed or the
\* uncompressed format, satisfies y^2 = x^3 + 7; otherwise deserialize fails
\* and returns no point.
C4_PointInvariant ==
    op = "deserialize" =>
        /\ cerr = "" => OnCurve(R)
        /\ cerr # "" => R.inf

\* C2: scalar multiplication k*P equals the k-fold repeated addition of P for
\* every scalar k >= 0 (so 0*P is the identity and the scalar acts modulo the
\* group order), also for k >= PRIME.
C2_MulIsRepeatedAddition ==
    op = "mul" => /\ R = acc
                  /\ (k = 0 => R = AtInfinity)

\* C3: ORDER * GENERATOR is the point at infinity.
C3_OrderTimesGenerator ==
    (op = "mul" /\ P = GENERATOR /\ k = ORDER) => R = AtInfinity

C3_Witness ==
    /\ op = "mul" /\ P = GENERATOR /\ k = ORDER
    /\ ~P.inf /\ acc = AtInfinity /\ R = AtInfinity

\* C5: Point::new(x, y) returns Normal(x, y) exactly when y^2 = x^3 + a*x + b
\* in the field, and the not-on-curve error and no point otherwise.
C5_PointNewIffContains ==
    op = "Point_new" =>
        LET holds == (fb * fb) % PRIME = (fa * fa * fa + 0 * fa + 7) % PRIME
        IN  /\ holds => (cerr = "" /\ R = Normal(fa, fb))
            /\ ~holds => (cerr = "PointNotOnTheCurve" /\ R.inf)

C5_Witness ==
    /\ op = "Point_new" /\ cerr = "PointNotOnTheCurve"
    /\ (fb * fb) % PRIME # (fa * fa * fa + 7) % PRIME

\* C6: P + identity = P and identity + P = P; P + Q is the identity when Q has
\* the x of P and another y; P + P is the identity when the y of P is 0, and
\* no slope is computed for it.
C6_IdentityAndInverse ==
    op = "add" =>
        /\ Q.inf => R = P
        /\ P.inf => R = Q
        /\ (~P.inf /\ ~Q.inf /\ P.x = Q.x /\ P.y # Q.y) => R = AtInfinity
        /\ (~P.inf /\ Q = P /\ P.y = 0) => (R = AtInfinity /\ divs = {})

C6_Witness ==
    /\ op = "add" /\ OnCurve(P) /\ OnCurve(Q)
    /\ P.x = Q.x /\ P.y # Q.y /\ R = AtInfinity

\* the vertical-tangent case of C6 is reached as well
C6_VerticalTangentReached ==
    op = "add" /\ ~P.inf /\ Q = P /\ P.y = 0 /\ R = AtInfinity

\* C7: the sum of two points of the curve (equal or not), and the multiple of
\* a point of the curve, is the identity or a point of the curve, and its
\* slope computation never divides by zero; the operands of every operation
\* being results of earlier ones, this covers every sequence of additions and
\* multiplications.
C7_Closure ==
    (op \in {"add", "mul"} /\ OnCurveOrInfinity(P) /\ OnCurveOrInfinity(Q)) =>
        /\ OnCurveOrInfinity(R)
        /\ 0 \notin divs

C7_Witness ==
    /\ op = "add" /\ OnCurve(P) /\ OnCurve(Q) /\ P.x # Q.x
    /\ OnCurve(R) /\ divs # {}

\* C8: every FieldElement an operation returns holds a number in [0, PRIME),
\* and add_inv(0) is 0.
C8_FieldRange ==
    /\ fr \in 0 .. PRIME - 1
    /\ (op = "add_inv" /\ fa = 0) => fr = 0

\* C9: add(a, b) = (a + b) mod PRIME, mul(a, b) = (a * b) mod PRIME, and
\* sub(a, b) = add(a, add_inv(b)) is the residue of a - b in [0, PRIME), also
\* when b = 0 or a < b.
C9_AddSubMul ==
    /\ op = "add" => fr = (fa + fb) % PRIME
    /\ op = "mul" => fr = (fa * fb) % PRIME
    /\ op = "sub" => /\ fr = Residue(fa - fb)
                     /\ fr = (fa + add_inv(fb)) % PRIME

C9_Witness ==
    /\ op = "sub" /\ fb = 0 /\ fa \in 1 .. PRIME - 1
    /\ add_inv(fb) = PRIME /\ fr = fa

\* C10: for every non-zero a, mul(a, mul_inv(a)) = 1 and pow(a, PRIME-1) = 1;
\* for every non-zero b, mul(div(a, b), b) = a.
C10_MulInverse ==
    /\ (op = "mul_inv" /\ ~FieldElement_is_zero(fa)) => mul(fa, fr) = 1
    /\ (op = "pow" /\ fe = PRIME - 1 /\ ~FieldElement_is_zero(fa)) => fr = 1
    /\ (op = "div" /\ ~FieldElement_is_zero(fb)) => mul(fr, fb) = fa

\* the laws of C10 on the elements whose number is in [1, PRIME)
C10_MulInverseOfReduced ==
    /\ (op = "mul_inv" /\ fa \in 1 .. PRIME - 1) => mul(fa, fr) = 1
    /\ (op = "pow" /\ fe = PRIME - 1 /\ fa \in 1 .. PRIME - 1) => fr = 1
    /\ (op = "div" /\ fb \in 1 .. PRIME - 1 /\ fa \in 0 .. PRIME - 1) =>
           mul(fr, fb) = fa

\* C11: pow with an exponent e < 0 exponentiates by the floor residue of e
\* modulo PRIME-1, a number of [0, PRIME-1); so for every non-zero a and every
\* e < 0, pow(a, e) = pow(mul_inv(a), -e) and mul(pow(a, e), pow(a, -e)) = 1.
C11_NegativePow ==
    (op = "pow" /\ fe < 0) =>
        /\ \E n \in 1 .. 2 :
               /\ fe + n * (PRIME - 1) \in 0 .. PRIME - 2
               /\ fr = modpow(fa, fe + n * (PRIME - 1), PRIME)
        /\ ~FieldElement_is_zero(fa) =>
               /\ fr = pow(mul_inv(fa), -fe)
               /\ mul(fr, pow(fa, -fe)) = 1

\* the laws of C11 on the elements whose number is in [1, PRIME)
C11_NegativePowOfReduced ==
    (op = "pow" /\ fe < 0 /\ fa \in 1 .. PRIME - 1) =>
        /\ \E n \in 1 .. 2 :
               /\ fe + n * (PRIME - 1) \in 0 .. PRIME - 2
               /\ fr = modpow(fa, fe + n * (PRIME - 1), PRIME)
        /\ fr = pow(mul_inv(fa), -fe)
        /\ mul(fr, pow(fa, -fe)) = 1

\* a negative power of an element of [2, PRIME) that is not 1 is reached
C11_ReducedReached ==
    op = "pow" /\ fe < 0 /\ fa \in 2 .. PRIME - 1 /\ fr # 1

C13_SecShape ==
    op = "serialize" =>
        /\ (~P.inf /\ ~compressed) =>
               /\ ser.err = ""
               /\ ser.val = <<4>> \o BigEndian(P.x, CoordLen) \o BigEndian(P.y, CoordLen)
               /\ Len(ser.val) = 1 + 2 * CoordLen
        /\ (~P.inf /\ compressed) =>
               /\ ser.err = ""
               /\ ser.val = <<IF P.y % 2 = 0 THEN 2 ELSE 3>> \o BigEndian(P.x, CoordLen)
               /\ Len(ser.val) = 1 + CoordLen
        /\ P.inf => (ser.err = "SerializePointAtInfinity" /\ ser.val = <<>>)

C13_Witness ==
    /\ op = "serialize" /\ ~compressed /\ P = GENERATOR
    /\ ser = [err |-> "", val |-> <<4, 0, GX, 0, GY>>]

\* the point at infinity is given to serialize as well
C13_InfinityReached ==
    op = "serialize" /\ P.inf /\ compressed /\ ser.err = "SerializePointAtInfinity"

\* C14: deserialize fails with InvalidSecBytesLength on every string whose
\* length is neither 1 + CoordLen nor 1 + 2*CoordLen, and returns an error, no
\* point and no panic, on every string of one of these lengths whose tag does
\* not go with its length (0x04 goes with 1 + 2*CoordLen, 0x02 and 0x03 with
\* 1 + CoordLen, no other tag is valid).
C14_MalformedRejected ==
    (op = "deserialize" /\ ser.val = <<>>) =>
        /\ Len(bytes) \notin {1 + CoordLen, 1 + 2 * CoordLen} =>
               (cerr = "InvalidSecBytesLength" /\ R.inf)
        /\ (\/ Len(bytes) = 1 + CoordLen /\ bytes[1] \notin {2, 3}
            \/ Len(bytes) = 1 + 2 * CoordLen /\ bytes[1] # 4) =>
               (cerr \notin {"", "panic"} /\ R.inf)

\* the part of C14 about the length: the only part the code enforces
C14_BadLengthRejected ==
    (op = "deserialize" /\ Len(bytes) \notin {1 + CoordLen, 1 + 2 * CoordLen}) =>
        (cerr = "InvalidSecBytesLength" /\ R.inf)

\* C15: for every Signature (r, s) with r, s >= 1, deserialize applied to its
\* serialization succeeds and returns a Signature equal to it.
C15_DerRoundTrip ==
    /\ (op = "der_serialize" /\ sig.r >= 1 /\ sig.s >= 1) => ser.err = ""
    /\ (op = "der_deserialize" /\ ser.val # <<>> /\ sig.r >= 1 /\ sig.s >= 1) =>
           dsig = sig

\* the round trip of C15 holds exactly when the integer s is encoded on 2 bytes
C15_RoundTripTwoByteS ==
    (op = "der_deserialize" /\ ser.val # <<>> /\ sig.r >= 1 /\ sig.s >= 1) =>
        (dsig = sig <=> Len(DerInteger(sig.s)) = 2)

\* C16: for every Signature with r, s >= 1, serialize returns 0x30, total_len,
\* 0x02, len(r_bytes), r_bytes, 0x02, len(s_bytes), s_bytes, where total_len
\* counts the bytes after the second one and r_bytes, s_bytes are the shortest
\* big-endian digits with one 0x00 in front exactly when the first digit has
\* its high bit set, so that the first byte of each integer is below 0x80.
C16_DerLayout ==
    (op = "der_serialize" /\ sig.r >= 1 /\ sig.s >= 1) =>
        LET r_bytes == DerInteger(sig.r)
            s_bytes == DerInteger(sig.s)
        IN  /\ ser.err = ""
            /\ ser.val = <<48, Len(r_bytes) + Len(s_bytes) + 4>>
                          \o <<2, Len(r_bytes)>> \o r_bytes
                          \o <<2, Len(s_bytes)>> \o s_bytes
            /\ ser.val[2] = Len(ser.val) - 2
            /\ ser.val[5] < 128
            /\ ser.val[5 + ser.val[4] + 2] < 128

C16_Witness ==
    /\ op = "der_serialize" /\ sig.r = 128 /\ sig.s = 256
    /\ ser = [err |-> "", val |-> <<48, 8, 2, 2, 0, 128, 2, 2, 1, 0>>]

\* C17: for every byte string, deserialize returns a Signature or an error; it
\* returns an InvalidSignature error when the first byte is not 0x30, when the
\* second byte + 2 is not the length of the input, or when an integer is not
\* preceded by 0x02, also when the second byte is 0xfe or 0xff and when the
\* input is truncated; it never panics and never wraps the addition of the
\* length.
C17_DerStrictTotal ==
    op = "der_deserialize" =>
        /\ dsig.err # "panic"
        /\ (bytes # <<>> /\ bytes[1] # 48) =>
               dsig.err = "InvalidSignature(bad compound)"
        /\ (Len(bytes) >= 2 /\ bytes[1] = 48 /\ bytes[2] + 2 # Len(bytes)) =>
               dsig.err = "InvalidSignature(bad signature size)"
        /\ (Len(bytes) >= 3 /\ bytes[1] = 48 /\ bytes[2] + 2 = Len(bytes)
               /\ bytes[3] # 2) =>
               dsig.err = "InvalidSignature(bad marker)"

\* the part of C17 that holds: on the inputs of at least 4 bytes whose second
\* byte is below 0xfe, a bad first byte, a declared length that is not the
\* length of the input and a bad first marker are reported as InvalidSignature
C17_StrictFromFourBytes ==
    (op = "der_deserialize" /\ Len(bytes) >= 4 /\ bytes[2] < 254) =>
        /\ dsig.err # "panic"
        /\ bytes[1] # 48 => dsig.err = "InvalidSignature(bad compound)"
        /\ (bytes[1] = 48 /\ bytes[2] + 2 # Len(bytes)) =>
               dsig.err = "InvalidSignature(bad signature size)"
        /\ (bytes[1] = 48 /\ bytes[2] + 2 = Len(bytes) /\ bytes[3] # 2) =>
               dsig.err = "InvalidSignature(bad marker)"

\* C18: every signature (r, s) create_signature returns has s <= ORDER / 2,
\* where s is (z + r * secret) * k^-1 mod ORDER or ORDER minus that value, z
\* being the digest read as a big-endian integer and r the x of k * G.
C18_LowS ==
    (op = "create_signature" /\ sig.err = "") =>
        LET z == digest[1] * 256 + digest[2]
            k_inv == CHOOSE j \in 1 .. ORDER - 1 : (j * k) % ORDER = 1
            s0 == ((z + sig.r * key.secret) * k_inv) % ORDER
        IN  /\ 2 * sig.s <= ORDER
            /\ sig.r = Point_mul(GENERATOR, k).x
            /\ sig.s \in {s0, ORDER - s0}

C18_Witness ==
    /\ op = "create_signature" /\ sig.err = "" /\ sig.s >= 1
    /\ 2 * sig.s <= ORDER
    /\ 2 * (((digest[1] * 256 + digest[2] + sig.r * key.secret)
              * modpow(k, ORDER - 2, ORDER)) % ORDER) > ORDER

C20_NonceRange ==
    /\ \A c \in refused : c = 0 \/ c >= ORDER
    /\ (op = "create_signature" /\ sig.err # "OverflowPadding") =>
           /\ k \in 1 .. ORDER - 1
           /\ ~Point_mul(GENERATOR, k).inf
           /\ sig.err = ""

C20_Witness ==
    /\ op = "create_signature" /\ sig.err = ""
    /\ 0 \in refused /\ \E c \in refused : c >= ORDER
    /\ k \in 1 .. ORDER - 1

\* C21: for every digest of the digest width, every public key and every
\* Signature (r, s), also with r = 0 or s = 0, is_valid returns a verdict,
\* true or false; it does not fail or panic.
C21_VerdictAlways ==
    (op = "is_valid" /\ Len(digest) = CoordLen) => valid \in {"true", "false"}

\* what is_valid does instead: it panics exactly when u*G + v*Q is the point
\* at infinity (for Q = secret * G, when u + v * secret is 0 modulo ORDER),
\* which s = 0 always gives
C21_PanicIffInfinity ==
    (op = "is_valid" /\ Len(digest) = CoordLen) =>
        LET z == digest[1] * 256 + digest[2]
            s_inv == IF sig.s % ORDER = 0 THEN 0
                     ELSE CHOOSE j \in 1 .. ORDER - 1 : (j * sig.s) % ORDER = 1
            u == (z * s_inv) % ORDER
            v == (sig.r * s_inv) % ORDER
        IN  /\ valid \in {"true", "false", "panic"}
            /\ valid = "panic" <=> (u + v * key.secret) % ORDER = 0
            /\ sig.s = 0 => valid = "panic"

\* the digits of n in base 58, most significant first, drawn from the alphabet
\* of the digits and letters without 0, O, I, l
RECURSIVE Digits58(_)
Digits58(n) ==
    IF n = 0 THEN <<>>
    ELSE Append(Digits58(n \div 58),
                BASE58_ALPHABET[CHOOSE i \in 1 .. 58 : i - 1 = n % 58])

\* the number of "1" a string starts with
RECURSIVE LeadingOnes(_)
LeadingOnes(str) ==
    IF str = <<>> \/ str[1] # "1" THEN 0
    ELSE 1 + LeadingOnes(SubSeq(str, 2, Len(str)))

\* the number whose digits in base 58 are str
RECURSIVE Value58(_)
Value58(str) ==
    IF str = <<>> THEN 0
    ELSE Value58(SubSeq(str, 1, Len(str) - 1)) * 58
         + (CHOOSE i \in 1 .. 58 : BASE58_ALPHABET[i] = str[Len(str)]) - 1

\* the byte string a base58 string stands for: a 0x00 for each leading "1",
\* then the shortest big-endian bytes of the value of the string
Decode58(str) == [i \in 1 .. LeadingOnes(str) |-> 0] \o Minimal(Value58(str))

\* the number of 0x00 bytes a byte string starts with
LeadingZeros(bs) ==
    IF \A i \in 1 .. Len(bs) : bs[i] = 0 THEN Len(bs)
    ELSE (CHOOSE i \in 1 .. Len(bs) : bs[i] # 0 /\ \A j \in 1 .. i - 1 : bs[j] = 0) - 1

\* the integer value of the bytes from the first non-zero one on
ValueOfBytes(bs) ==
    LET tail == SubSeq(bs, LeadingZeros(bs) + 1, Len(bs))
        RECURSIVE val(_)
        val(t) == IF t = <<>> THEN 0 ELSE val(SubSeq(t, 1, Len(t) - 1)) * 256 + t[Len(t)]
    IN  val(tail)

\* C22: for every byte string with exactly k leading 0x00 bytes, encode returns
\* k characters "1" followed by the base-58 big-endian digits (alphabet without
\* 0, O, I, l) of the integer value of the input, and no digit when the value
\* is 0; the empty input gives the empty string, and the input is recovered
\* from the output, so distinct inputs give distinct outputs.
C22_Base58LeadingZeros ==
    op = "encode" =>
        /\ b58 = [i \in 1 .. LeadingZeros(bytes) |-> "1"]
                  \o Digits58(ValueOfBytes(bytes))
        /\ \A i \in 1 .. Len(b58) : b58[i] \notin {"0", "O", "I", "l"}
        /\ ValueOfBytes(bytes) = 0 => Len(b58) = LeadingZeros(bytes)
        /\ bytes = <<>> => b58 = <<>>
        /\ Decode58(b58) = bytes

C22_Witness ==
    /\ op = "encode" /\ bytes = <<0, 0, 59>>
    /\ b58 = <<"1", "1", "2", "2">>

\* C23: the FieldElement with an explicit prime rejects instead of reducing:
\* new(number, prime) returns an error for every number >= prime and the
\* element (number, prime) otherwise, and add, sub, mul and div of two elements
\* with different primes return an error and no value.
C23_GenericFieldRejects ==
    /\ gin.n >= gin.p => (ga.err = "InvalidFieldNumber" /\ ga.val = NoElem.val)
    /\ gin.n < gin.p => ga = [err |-> "", val |-> [prime |-> gin.p, number |-> gin.n]]
    /\ gin.m >= gin.q => (gb.err = "InvalidFieldNumber" /\ gb.val = NoElem.val)
    /\ gin.m < gin.q => gb = [err |-> "", val |-> [prime |-> gin.q, number |-> gin.m]]
    /\ (op \in {"fragile_add", "fragile_sub", "fragile_mul", "fragile_div"}
           /\ gin.p # gin.q) =>
           /\ gr.val = NoElem.val
           /\ op = "fragile_add" => gr.err = "InvalidFieldAddition"
           /\ op = "fragile_sub" => gr.err = "InvalidFieldSubstraction"
           /\ op = "fragile_mul" => gr.err = "InvalidFieldMultiplication"
           /\ op = "fragile_div" => gr.err = "InvalidFieldDivition"

C23_Witness ==
    /\ op = "fragile_mul" /\ gin.p = 13 /\ gin.q = 5 /\ gin.n = 12 /\ gin.m = 4
    /\ gr.err = "InvalidFieldMultiplication"

\* with one prime the operations return an element (7 / 2 = 10 in F_13)
C23_SamePrimeReached ==
    /\ op = "fragile_div" /\ gin = [n |-> 7, p |-> 13, m |-> 2, q |-> 13]
    /\ gr = [err |-> "", val |-> [prime |-> 13, number |-> 10]]

\* the digits of an integer without its leading zeros
RECURSIVE Numeral(_)
Numeral(val) ==
    IF val = <<>> \/ val[1] # 0 THEN val ELSE Numeral(Tail(val))

\* n < 2^(8*w) - 1 for the integer n with the digits val
BelowAllOnes(val, w) ==
    \/ Len(Numeral(val)) < w
    \/ Len(Numeral(val)) = w /\ \E i \in 1 .. w : Numeral(val)[i] # 255

\* n < 253
Below253(val) ==
    \/ Numeral(val) = <<>>
    \/ Len(Numeral(val)) = 1 /\ Numeral(val)[1] < 253

\* the marker byte and the width of the payload of a variant
Marker(tag) == CASE tag = "U16" -> 253 [] tag = "U32" -> 254 [] tag = "U64" -> 255
Width(tag) == CASE tag = "U8" -> 1 [] tag = "U16" -> 2 [] tag = "U32" -> 4 [] tag = "U64" -> 8

\* C24: for every integer n a conversion accepts, with v the VarInt it gives,
\* decode(encode(v)) is v and as_u64(v) is n; encode gives the single byte of
\* a U8, and for U16, U32, U64 the marker 0xfd, 0xfe, 0xff followed by the
\* payload of 2, 4, 8 bytes, the least significant first.
C24_VarIntRoundTrip ==
    /\ vdec # NoVarInt => vdec = [err |-> "", val |-> vint.val]
    /\ vu64 # <<>> => (Len(vu64) = 8 /\ Numeral(vu64) = Numeral(vn.val))
    /\ venc # <<>> =>
        LET v == vint.val
            w == Width(v.tag)
        IN  /\ Len(v.val) = w
            /\ v.tag = "U8" => venc = <<v.val[1]>>
            /\ v.tag # "U8" =>
                /\ Len(venc) = 1 + w
                /\ venc[1] = Marker(v.tag)
                /\ \A i \in 0 .. w - 1 : venc[2 + i] = v.val[w - i]

C24_Witness ==
    /\ vn = [ty |-> "u32", val |-> <<0, 0, 255, 254>>]
    /\ vint.val = [tag |-> "U16", val |-> <<255, 254>>]
    /\ venc = <<253, 254, 255>>
    /\ vdec = [err |-> "", val |-> vint.val]
    /\ vu64 = <<0, 0, 0, 0, 0, 0, 255, 254>>

\* C25: a value n converts to U8 iff n < 253, to U16 iff 253 <= n < 65535, to
\* U32 iff 65535 <= n < 2^32 - 1, to U64 iff 2^32 - 1 <= n < 2^64 - 1, with
\* the value n in the variant; the conversion of a u64 fails with
\* IntToBigForVarInt for n = 2^64 - 1, and no other conversion fails; so no
\* conversion gives a U8 with the byte 0xfd, 0xfe or 0xff.
C25_VariantSelection ==
    op # "varint_input" =>
        LET n == vn.val
            tag == vint.val.tag
        IN  /\ vint.err \in {"", "IntToBigForVarInt"}
            /\ vint.err = "IntToBigForVarInt" <=> ~BelowAllOnes(n, 8)
            /\ tag = "U8" <=> Below253(n)
            /\ tag = "U16" <=> (~Below253(n) /\ BelowAllOnes(n, 2))
            /\ tag = "U32" <=> (~BelowAllOnes(n, 2) /\ BelowAllOnes(n, 4))
            /\ tag = "U64" <=> (~BelowAllOnes(n, 4) /\ BelowAllOnes(n, 8))
            /\ vint.err = "" =>
                /\ Len(vint.val.val) = Width(tag)
                /\ Numeral(vint.val.val) = Numeral(n)
            /\ tag = "U8" => vint.val.val[1] \notin {253, 254, 255}

C25_Witness ==
    /\ op = "try_from" /\ vn.val = U64_LIMIT
    /\ vint.err = "IntToBigForVarInt"

\* the values at the other limits go to the next variant
C25_LimitsReached ==
    \/ vn.val = <<253>> /\ vint.val = U16(<<0, 253>>)
    \/ vn.val = <<255, 255>> /\ vint.val = U32(<<0, 0, 255, 255>>)
    \/ vn.val = <<255, 255, 255, 255>> /\ vint.val.tag = "U64"

\* C26: for all points P and Q, each the identity or a point of the curve,
\* P + Q == Q + P: here for the Point over a type parameter, with the integer
\* coordinates of its tests.
C26_AdditionCommutes ==
    (gpq # NoPoint /\ gqp # NoPoint) => gpq = gqp

\* the two sums of (-1, -1) and (3, -7) on y^2 = x^3 + 5x + 7
C26_SumsDiffer ==
    /\ gp.val = generic_Normal(-1, -1, EllipticCurve_new(5, 7))
    /\ gq.val = generic_Normal(3, -7, EllipticCurve_new(5, 7))
    /\ gpq.val = generic_Normal(-1, 1, EllipticCurve_new(5, 7))
    /\ gqp.val = generic_Normal(-1, 3, EllipticCurve_new(5, 7))

\* the sums the tests of curve.rs compare are equal
C26_TestedSumsEqual ==
    (/\ gp.val = generic_Normal(-1, -1, EllipticCurve_new(5, 7))
     /\ gq.val = generic_Normal(2, 5, EllipticCurve_new(5, 7))
     /\ gpq # NoPoint /\ gqp # NoPoint) =>
        /\ gpq = generic_Ok(generic_Normal(3, -7, EllipticCurve_new(5, 7)))
        /\ gqp = gpq

\* over the field of secp256k1 the addition of two points, each the identity
\* or on the curve, commutes
C26_Secp256k1Commutes ==
    (op = "add" /\ OnCurveOrInfinity(P) /\ OnCurveOrInfinity(Q)) =>
        R = Point_add(Q, P)

C26_Secp256k1Reached ==
    /\ op = "add" /\ OnCurve(P) /\ OnCurve(Q) /\ P.x # Q.x
    /\ OnCurve(R) /\ R = Point_add(Q, P)

\* C27: Signature::serialize is total: for every Signature that Signature::new
\* builds, also with r = 0 or s = 0, it returns Ok with a byte vector and does
\* not panic.
C27_SerializeTotal ==
    op = "der_serialize" => (ser.err = "" /\ ser.val # <<>>)

\* what serialize does instead: it panics exactly for r = 0 or s = 0, where
\* strip_start leaves no byte of the integer and the first one is read
C27_PanicIffZero ==
    op = "der_serialize" =>
        /\ ser.err \in {"", "panic"}
        /\ ser.err = "panic" <=> (sig.r = 0 \/ sig.s = 0)

\* C28: fetch returns a transaction whose testnet field is the testnet
\* argument of that call, for every interleaving of concurrent calls on the
\* shared TX_FETCHER.
C28_TestnetOfTheCall ==
    \A t \in DOMAIN fpc :
        (fpc[t] = "done" /\ fres[t].err = "") =>
            fres[t].tx.testnet = fargs[t].testnet

\* a call that ran alone from get_mut to its return has its own testnet;
\* here the other task wrote the entry in between
C28_LostUpdate ==
    \E t \in DOMAIN fpc :
        /\ fpc[t] = "done" /\ fres[t].err = ""
        /\ fres[t].tx.testnet # fargs[t].testnet

\* every entry of the cache is stored under the id of its transaction
C29_KeysAreIds ==
    \A id \in DOMAIN cache : cache[id].some => Tx_id(cache[id].tx).val = id

\* the responses fetch cannot insert a transaction from: a failed download,
\* a body that is no transaction, a transaction with another id
Unusable(t, response) ==
    \/ response.status # "ok"
    \/ \A tx \in {TxA, TxB} : response.bytes # BodyOf(tx)
    \/ response.bytes # BodyOf(CHOOSE tx \in {TxA, TxB} : Tx_id(tx).val = fargs[t].tx_id)

\* a step of fetch on an unusable response returns an error, the error
\* FetchedInvalidTransaction for another id, and leaves the cache as it was
FailsCleanly(t) ==
    (fpc[t] = "download" /\ fpc'[t] # "download" /\ Unusable(t, fresp'[t])) =>
        /\ fpc'[t] = "done"
        /\ fres'[t].err \in {"HyperError", "IoError", "FetchedInvalidTransaction"}
        /\ (\E tx \in {TxA, TxB} : fresp'[t].bytes = BodyOf(tx)) =>
               fres'[t].err = "FetchedInvalidTransaction"
        /\ cache' = cache

\* fetch with fresh = false for a cached key makes no request and returns
\* the transaction of the cache
HitsCache(t) ==
    /\ (fpc[t] = "contains_key" /\ fpc'[t] # "contains_key"
            /\ ~fargs[t].fresh /\ cache[fargs[t].tx_id].some) =>
           (fpc'[t] = "get_mut" /\ fresp'[t] = NoResponse)
    /\ (fpc[t] = "get" /\ fpc'[t] = "done") =>
           /\ fres'[t] = tx_Ok(cache[fargs[t].tx_id].tx)
           /\ Tx_id(fres'[t].tx).val = fargs[t].tx_id

\* C29: after any sequence of fetch calls every entry of the cache stored
\* under the key k is a transaction whose id is k; a fetch whose download
\* fails, or does not parse, or gives a transaction with another id returns
\* an error (FetchedInvalidTransaction for the other id) and leaves the cache
\* unchanged; a fetch with fresh = false for a cached key makes no request
\* and returns the cached transaction.
C29_CacheInvariant ==
    /\ []C29_KeysAreIds
    /\ [][\A t \in DOMAIN fpc : FailsCleanly(t) /\ HitsCache(t)]_vars

\* what fetch does instead on a body without a byte 4, on the marker 0x00
\* without the byte after it, and on a body with an input or an output: it
\* panics; the rest of C29 holds
C29_PanicsOnShortBody ==
    [][\A t \in DOMAIN fpc :
        /\ HitsCache(t)
        /\ (fpc[t] = "download" /\ fpc'[t] # "download" /\ Unusable(t, fresp'[t])) =>
            /\ fpc'[t] = "done"
            /\ cache' = cache
            /\ fres'[t].err \in {"HyperError", "IoError", "FetchedInvalidTransaction",
                                  "panic"}
            /\ Len(fresp'[t].bytes) < 5 /\ fresp'[t].status = "ok"
                   => fres'[t].err = "panic"
            /\ fres'[t].err = "panic" =>
                   \/ Len(fresp'[t].bytes) < 5
                   \/ Len(fresp'[t].bytes) = 5 /\ fresp'[t].bytes[5] = 0
                   \/ Len(fresp'[t].bytes) > 16]_vars

\* the amount with the digits d as h * 2^64 + c, for an amount next to 0
\* (h = 0) or next to 2^64 (h = 1, c < 0)
Amount(d) ==
    IF \A i \in 1 .. 7 : d[i] = 0 THEN [h |-> 0, c |-> d[8]]
    ELSE [h |-> 1, c |-> d[8] - 256]

RECURSIVE Total(_)
Total(amounts) ==
    IF amounts = <<>> THEN [h |-> 0, c |-> 0]
    ELSE LET rest == Total(Tail(amounts))
         IN  [h |-> Amount(amounts[1]).h + rest.h, c |-> Amount(amounts[1]).c + rest.c]

\* the amounts the inputs refer to, when fetch_tx returned a transaction with
\* that output for each of them
Referenced ==
    [i \in 1 .. Len(feetx.inputs) |-> feeprev[i].tx.outputs[feetx.inputs[i].prev_idx + 1].amount]

AllReferenced ==
    \A i \in 1 .. Len(feetx.inputs) :
        /\ feeprev[i].err = ""
        /\ feetx.inputs[i].prev_idx + 1 <= Len(feeprev[i].tx.outputs)

\* inputs minus outputs, as h * 2^64 + c
Difference ==
    LET ins == Total(Referenced)
        outs == Total([i \in 1 .. Len(feetx.outputs) |-> feetx.outputs[i].amount])
    IN  [h |-> ins.h - outs.h, c |-> ins.c - outs.c]

\* C30: fee returns the sum of the amounts of the previous outputs its inputs
\* refer to minus the sum of the amounts of its outputs, a value of 0 to
\* 2^64 - 1; when the outputs exceed the inputs, or a sum exceeds 2^64 - 1,
\* it neither panics nor returns a value wrapped modulo 2^64.
C30_FeeIsDifference ==
    (op = "fee" /\ AllReferenced) =>
        /\ feeres.err # "panic"
        /\ feeres.err = "" =>
            \/ Difference.h = 0 /\ Difference.c >= 0
                  /\ feeres.val = [i \in 1 .. 8 |-> IF i = 8 THEN Difference.c ELSE 0]
            \/ Difference.h = 1 /\ Difference.c < 0
                  /\ feeres.val = [i \in 1 .. 8 |-> IF i = 8 THEN 256 + Difference.c ELSE 255]
        /\ (Difference.h = 0 /\ Difference.c >= 0 /\ Total(Referenced).h = 0
                /\ Total(Referenced).c >= 0) => feeres.err = ""

\* what fee does with one output of amount 1 and no input: it panics, or
\* returns 2^64 - 1
C30_WrapsOrPanics ==
    (op = "fee" /\ feetx.inputs = <<>>
        /\ feetx.outputs = <<Output(<<0, 0, 0, 0, 0, 0, 0, 1>>)>>) =>
        \/ feeres.err = "panic"
        \/ feeres = [err |-> "", val |-> U64_LIMIT]

\* within the range fee is the difference: 2^64 - 1 in, 2^64 - 2 out, fee 1
C30_InRangeReached ==
    /\ op = "fee" /\ AllReferenced /\ Len(feetx.inputs) = 1
    /\ Referenced[1] = U64_LIMIT
    /\ feetx.outputs = <<Output(<<255, 255, 255, 255, 255, 255, 255, 254>>)>>
    /\ feeres = [err |-> "", val |-> <<0, 0, 0, 0, 0, 0, 0, 1>>]

====
